---- MODULE Spec2Model ----
(***************************************************************************)
(* Simple Lists (benhoyt/simplelists): the SQLite storage model (db.go)    *)
(* and the HTTP server with sign-in and CSRF guards in front of it.        *)
(*                                                                         *)
(* Strings are sequences of one-character strings, so that trimming,      *)
(* escaping, formatting and byte-wise comparison are computed as the code  *)
(* computes them.                                                          *)
(***************************************************************************)
EXTENDS Integers, Sequences, FiniteSets, TLC

VARIABLES
    lists,      \* table lists, rows in insertion (rowid) order
    items,      \* table items, rows in insertion order
    sign_ins,   \* table sign_ins, a set of rows
    now,        \* the wall clock, [sec, nsec]
    inflight,   \* /add-item requests between their GetList and their AddItem
    resp,       \* the request served by the last step and the response it got
    signedOut,  \* history: sign-in cookie values whose /sign-out succeeded
    server,     \* the Server's configuration: username, passwordHash, showLists
    browser,    \* a browser that keeps cookies and follows redirects and forms
    creating,   \* /create-list requests between their makeListID and their CreateList
    main        \* the process: where func main is, and what it was started with

storeVars == <<lists, items, sign_ins>>
vars == <<lists, items, sign_ins, now, inflight, resp, signedOut, server, browser, creating,
         main>>

----------------------------------------------------------------------------
(* Bounds of the model.                                                    *)

\* rows of table lists, and of table items, where the table is the subject
MaxLists == 2
MaxItems == 2
\* rows of the tables where they are not
SmallLists == 1
SmallItems == 1
\* half-second steps of the clock
MaxTicks == 3
\* and where the age of a sign-in is the subject
LongTicks == 4
\* 90-day jumps of the clock
MaxJumps == 1
\* distinct outcomes of the random source, where collisions are the subject
MaxDraws == 2
\* and where they are not
SmallDraws == 1
\* outcomes of the random source where the list IDs themselves are the
\* subject: each character of listIDChars is drawn in some of them
IDDraws == 22
\* /add-item requests in flight
MaxInflight == 1

----------------------------------------------------------------------------
(* Strings.                                                                *)

RECURSIVE Flatten(_)
Flatten(ss) == IF ss = <<>> THEN <<>> ELSE Head(ss) \o Flatten(Tail(ss))

IsSpace(c) == c \in {" ", "\t", "\n", "\r"}

RECURSIVE TrimLeft(_)
TrimLeft(s) == IF s # <<>> /\ IsSpace(Head(s)) THEN TrimLeft(Tail(s)) ELSE s

RECURSIVE TrimRight(_)
TrimRight(s) ==
    IF s # <<>> /\ IsSpace(s[Len(s)]) THEN TrimRight(SubSeq(s, 1, Len(s) - 1)) ELSE s

\* a TrimSpace that leaves the string as it is
TrimNothing(s) == s

\* strings.TrimSpace
TrimSpace(s) == TrimRight(TrimLeft(s))

Digits == <<"0", "1", "2", "3", "4", "5", "6", "7", "8", "9">>
HexDigits == <<"0", "1", "2", "3", "4", "5", "6", "7", "8", "9",
               "a", "b", "c", "d", "e", "f">>
\* "0123456789ABCDEF" of url.QueryEscape
UpperHex == <<"0", "1", "2", "3", "4", "5", "6", "7", "8", "9",
              "A", "B", "C", "D", "E", "F">>
Letters == {"a", "b", "c", "d", "e", "f", "g", "h", "i", "j", "k", "l", "m",
            "n", "o", "p", "q", "r", "s", "t", "u", "v", "w", "x", "y", "z"}

\* the byte value of the characters that occur in timestamps, paths and forms
Code(c) ==
    CASE c = " " -> 32  [] c = "%" -> 37  [] c = "&" -> 38  [] c = "+" -> 43
      [] c = "-" -> 45  [] c = "." -> 46  [] c = "/" -> 47  [] c = "0" -> 48
      [] c = "1" -> 49  [] c = "2" -> 50  [] c = "3" -> 51  [] c = "4" -> 52
      [] c = "5" -> 53  [] c = "6" -> 54  [] c = "7" -> 55  [] c = "8" -> 56
      [] c = "9" -> 57  [] c = ":" -> 58  [] c = "=" -> 61  [] c = "?" -> 63
      [] c = "T" -> 84  [] c = "Z" -> 90
      [] OTHER -> 0

\* decimal digits of n, at least w of them (zero-padded)
RECURSIVE Pad(_, _)
Pad(n, w) ==
    IF n < 10 /\ w <= 1 THEN <<Digits[n + 1]>>
    ELSE Pad(n \div 10, w - 1) \o <<Digits[(n % 10) + 1]>>

\* strconv.Itoa
Itoa(n) == Pad(n, 1)

IsNumeral(s) == s # <<>> /\ \A i \in 1..Len(s) : \E d \in 1..10 : Digits[d] = s[i]

RECURSIVE Atoi(_)
Atoi(s) ==
    IF s = <<>> THEN 0
    ELSE 10 * Atoi(SubSeq(s, 1, Len(s) - 1))
         + (CHOOSE d \in 0..9 : Digits[d + 1] = s[Len(s)])

\* url.QueryEscape: unreserved characters stay, a space becomes "+", every
\* other byte becomes %XX
RECURSIVE QueryEscape(_)
QueryEscape(s) ==
    IF s = <<>> THEN <<>>
    ELSE LET c == Head(s)
             e == IF c \in Letters \/ IsNumeral(<<c>>) \/ c \in {"-", "_", ".", "~"}
                  THEN <<c>>
                  ELSE IF c = " " THEN <<"+">>
                  ELSE <<"%", UpperHex[(Code(c) \div 16) + 1], UpperHex[(Code(c) % 16) + 1]>>
         IN  e \o QueryEscape(Tail(s))

\* the characters Code knows, and the character of a byte value
CodeChars == {" ", "%", "&", "+", "-", ".", "/", ":", "=", "?", "T", "Z"}
CharOfCode(n) == IF \E c \in CodeChars : Code(c) = n
                 THEN CHOOSE c \in CodeChars : Code(c) = n
                 ELSE "?"

IsHex(c) == \E d \in 1..16 : HexDigits[d] = c \/ UpperHex[d] = c
HexValue(c) == (CHOOSE d \in 1..16 : HexDigits[d] = c \/ UpperHex[d] = c) - 1

\* url.QueryUnescape: [ok, s]; "+" is a space, %XX a byte, and a "%" that
\* two hex digits do not follow is an error
RECURSIVE Unescaped(_)
Unescaped(s) ==
    IF s = <<>> THEN <<>>
    ELSE IF Head(s) = "+" THEN <<" ">> \o Unescaped(Tail(s))
    ELSE IF Head(s) = "%"
    THEN <<CharOfCode(16 * HexValue(s[2]) + HexValue(s[3]))>> \o Unescaped(SubSeq(s, 4, Len(s)))
    ELSE <<Head(s)>> \o Unescaped(Tail(s))

QueryUnescape(s) ==
    LET ok == \A i \in 1..Len(s) :
                 s[i] = "%" => (i + 2 <= Len(s) /\ IsHex(s[i + 1]) /\ IsHex(s[i + 2]))
    IN  [ok |-> ok, s |-> IF ok THEN Unescaped(s) ELSE <<>>]

\* strings.Cut: <<before, after>> of the first sep; <<s, "">> without one
Cut(s, sep) ==
    LET at == {i \in 1..Len(s) : s[i] = sep}
    IN  IF at = {} THEN <<s, <<>>>>
        ELSE LET i == CHOOSE j \in at : \A h \in at : j <= h
             IN  <<SubSeq(s, 1, i - 1), SubSeq(s, i + 1, Len(s))>>

\* url.Values.Get on url.ParseQuery(query): the first value of the key; a
\* pair that does not unescape is dropped
RECURSIVE QueryGet(_, _)
QueryGet(query, key) ==
    IF query = <<>> THEN <<>>
    ELSE LET pair == Cut(query, "&")
             kv   == Cut(pair[1], "=")
             k    == QueryUnescape(kv[1])
             v    == QueryUnescape(kv[2])
         IN  IF pair[1] # <<>> /\ k.ok /\ v.ok /\ k.s = key THEN v.s
             ELSE QueryGet(pair[2], key)

\* the position of the first character of s that is in set cs, 0 without one
IndexAny(s, cs) ==
    LET at == {i \in 1..Len(s) : s[i] \in cs}
    IN  IF at = {} THEN 0 ELSE CHOOSE j \in at : \A h \in at : j <= h

\* the position of the last "/" of s, 0 without one
LastSlash(s) ==
    LET at == {i \in 1..Len(s) : s[i] = "/"}
    IN  IF at = {} THEN 0 ELSE CHOOSE j \in at : \A h \in at : h <= j

\* url.getScheme: [scheme, err].  Letters, then digits, "+", "-" and "."
\* up to a colon are a scheme; a colon in front is an error; anything else
\* ends the search without a scheme
getScheme(rawURL) ==
    LET SchemeChars == Letters \cup {Digits[i] : i \in 1..Len(Digits)} \cup {"+", "-", "."}
        stop == IndexAny(rawURL, {rawURL[i] : i \in 1..Len(rawURL)} \ SchemeChars)
    IN  IF stop = 0 \/ rawURL[stop] # ":" THEN [scheme |-> <<>>, err |-> FALSE]
        ELSE IF stop = 1 THEN [scheme |-> <<>>, err |-> TRUE]
        ELSE IF rawURL[1] \notin Letters THEN [scheme |-> <<>>, err |-> FALSE]
        ELSE [scheme |-> SubSeq(rawURL, 1, stop - 1), err |-> FALSE]

\* url.Parse, as far as http.Redirect looks at it: the scheme, and whether
\* parsing fails (a colon in front, or in the first segment of a relative
\* path)
Parse(rawURL) ==
    LET url     == Cut(rawURL, "#")[1]
        got     == getScheme(url)
        rest    == Cut(url, "?")[1]
        segment == Cut(rest, "/")[1]
    IN  IF got.err THEN got
        ELSE IF got.scheme = <<>> /\ rest # <<>> /\ rest[1] # "/" /\ IndexAny(segment, {":"}) # 0
        THEN [scheme |-> <<>>, err |-> TRUE]
        ELSE got

\* the elements of a path between its slashes
RECURSIVE Elements(_)
Elements(path) ==
    IF IndexAny(path, {"/"}) = 0 THEN <<path>>
    ELSE LET cut == Cut(path, "/") IN <<cut[1]>> \o Elements(cut[2])

\* the elements of a rooted path that path.Clean keeps: empty ones and "."
\* are dropped, ".." drops the one before it
RECURSIVE Kept(_, _)
Kept(elements, kept) ==
    IF elements = <<>> THEN kept
    ELSE LET e == Head(elements)
         IN  IF e = <<>> \/ e = <<".">> THEN Kept(Tail(elements), kept)
             ELSE IF e = <<".", ".">>
             THEN Kept(Tail(elements), SubSeq(kept, 1, Len(kept) - 1))
             ELSE Kept(Tail(elements), Append(kept, e))

\* path.Clean of a rooted path
Clean(path) ==
    LET kept == Kept(Elements(path), <<>>)
    IN  IF kept = <<>> THEN <<"/">>
        ELSE Flatten([i \in 1..Len(kept) |-> <<"/">> \o kept[i]])

\* byte-wise comparison of two strings (SQLite's BINARY collation, memcmp)
RECURSIVE StrLess(_, _)
StrLess(a, b) ==
    IF b = <<>> THEN FALSE
    ELSE IF a = <<>> THEN TRUE
    ELSE IF Head(a) = Head(b) THEN StrLess(Tail(a), Tail(b))
    ELSE Code(Head(a)) < Code(Head(b))

----------------------------------------------------------------------------
(* Time.  The clock is [sec, nsec], sec counted from 2023-01-01T00:00:00Z. *)

SecondsPerDay == 24 * 60 * 60
\* '-90 DAYS' in IsSignInValid
ValidDays == 90
NanosPerSecond == 1000 * 1000 * 1000
HalfSecond == NanosPerSecond \div 2

\* the clock starts 90 days into the year, so that NOW - 90 DAYS is in it too
StartSec == ValidDays * SecondsPerDay
\* one jump of the clock: a second less than the validity period
JumpSec == ValidDays * SecondsPerDay - 1

MonthLengths == <<31, 28, 31, 30, 31, 30, 31, 31, 30, 31, 30, 31>>

\* <<month, day of month>> of day d (from 0) of a 365-day year
RECURSIVE MonthDay(_, _)
MonthDay(d, m) ==
    IF d < MonthLengths[m] THEN <<m, d + 1>> ELSE MonthDay(d - MonthLengths[m], m + 1)

DateOf(sec) ==
    LET day == sec \div SecondsPerDay
        md  == MonthDay(day % 365, 1)
    IN  Pad(2023 + (day \div 365), 4) \o <<"-">> \o Pad(md[1], 2) \o <<"-">> \o Pad(md[2], 2)

ClockOf(sec) ==
    LET s == sec % SecondsPerDay
    IN  Pad(s \div 3600, 2) \o <<":">> \o Pad((s % 3600) \div 60, 2) \o <<":">> \o Pad(s % 60, 2)

RECURSIVE StripZeros(_)
StripZeros(s) ==
    IF s # <<>> /\ s[Len(s)] = "0" THEN StripZeros(SubSeq(s, 1, Len(s) - 1)) ELSE s

\* time.Time.Format(time.RFC3339Nano) of a UTC time: the fraction of a second
\* is written without its trailing zeros, and not at all when it is zero
FormatRFC3339Nano(t) ==
    DateOf(t.sec) \o <<"T">> \o ClockOf(t.sec)
        \o (IF t.nsec = 0 THEN <<>> ELSE <<".">> \o StripZeros(Pad(t.nsec, 9)))
        \o <<"Z">>

\* SQLite's "YYYY-MM-DD HH:MM:SS" of a whole second
SQLDateTime(sec) == DateOf(sec) \o <<" ">> \o ClockOf(sec)

\* SQLite's CURRENT_TIMESTAMP: the clock cut to whole seconds
CURRENT_TIMESTAMP == SQLDateTime(now.sec)

\* a cutoff one second earlier: the one that would let a sign-in aged
\* exactly 90 days pass the comparison
CutoffInclusive == SQLDateTime(now.sec - ValidDays * SecondsPerDay - 1)

\* SQLite's DATETIME('NOW', '-90 DAYS')
Cutoff == SQLDateTime(now.sec - ValidDays * SecondsPerDay)

\* time t plus d nanoseconds (d up to a second)
AddNanos(t, d) ==
    [sec |-> t.sec + ((t.nsec + d) \div NanosPerSecond), nsec |-> (t.nsec + d) % NanosPerSecond]

\* how far the clock has been advanced: jumps taken, and half seconds since
JumpsOf(t) == (t.sec - StartSec) \div JumpSec
TicksOf(t) == 2 * ((t.sec - StartSec) % JumpSec) + (t.nsec \div HalfSecond)

\* a NULL column
NULL == <<>>

----------------------------------------------------------------------------
(* The storage model (db.go).  Queries read the tables; each statement     *)
(* that writes is an operator giving the table after it.                   *)

\* the not-found result of GetList (a nil *List with a nil error)
Nil == [ID |-> <<>>, Name |-> <<>>, Items |-> <<>>, found |-> FALSE]

listIDChars == <<"b", "c", "d", "f", "g", "h", "j", "k", "l", "m", "n",
                 "p", "q", "r", "s", "t", "v", "w", "x", "y", "z">>

\* the outcomes of the random source the model follows: outcome k makes the
\* i-th call of Intn(n) return (k * i) % n
Intn(k, i, n) == (k * i) % n

\* a makeListID whose loop stops one character early
makeListIDShort(n, k) == [i \in 1..(n - 1) |-> listIDChars[Intn(k, i, Len(listIDChars)) + 1]]

\* makeListID(n) under outcome k of m.rnd
makeListID(n, k) == [i \in 1..n |-> listIDChars[Intn(k, i, Len(listIDChars)) + 1]]

\* hex.EncodeToString
HexEncode(bytes) ==
    Flatten([i \in 1..Len(bytes) |->
                <<HexDigits[(bytes[i] \div 16) + 1], HexDigits[(bytes[i] % 16) + 1]>>])

\* generateSignInToken under outcome k of rand.Read: 32 bytes, hex-encoded
generateSignInToken(k) == HexEncode([i \in 1..32 |-> Intn(k, i, 256)])

\* generateCSRFToken under outcome k of rand.Read: 16 bytes, hex-encoded
generateCSRFToken(k) == HexEncode([i \in 1..16 |-> Intn(k, i, 256)])

Remove(seq, i) == SubSeq(seq, 1, i - 1) \o SubSeq(seq, i + 1, Len(seq))

\* rows in descending order of time_created, compared as the column stores
\* it (text); among equal values the earlier row comes first
RECURSIVE OrderByTimeCreatedDesc(_)
OrderByTimeCreatedDesc(rows) ==
    IF rows = <<>> THEN <<>>
    ELSE LET i == CHOOSE i \in 1..Len(rows) :
                     \A j \in 1..Len(rows) :
                        /\ ~StrLess(rows[i].time_created, rows[j].time_created)
                        /\ rows[j].time_created = rows[i].time_created => i <= j
         IN  <<rows[i]>> \o OrderByTimeCreatedDesc(Remove(rows, i))

\* rows in descending order of id: what ORDER BY id DESC would give
RECURSIVE OrderByIDDesc(_)
OrderByIDDesc(rows) ==
    IF rows = <<>> THEN <<>>
    ELSE LET i == CHOOSE i \in 1..Len(rows) : \A j \in 1..Len(rows) : rows[i].id >= rows[j].id
         IN  <<rows[i]>> \o OrderByIDDesc(Remove(rows, i))

\* rows in ascending order of the integer column id
RECURSIVE OrderByID(_)
OrderByID(rows) ==
    IF rows = <<>> THEN <<>>
    ELSE LET i == CHOOSE i \in 1..Len(rows) : \A j \in 1..Len(rows) : rows[i].id <= rows[j].id
         IN  <<rows[i]>> \o OrderByID(Remove(rows, i))

\* a filter that lets deleted rows through: a query without its
\* time_deleted IS NULL
NotDeletedAny(row) == TRUE

\* WHERE time_deleted IS NULL
NotDeleted(row) == row.time_deleted = NULL

\* GetLists: SELECT id, name, time_created FROM lists
\*           WHERE time_deleted IS NULL ORDER BY time_created DESC
GetLists ==
    LET rows == OrderByTimeCreatedDesc(SelectSeq(lists, NotDeleted))
    IN  [i \in 1..Len(rows) |->
            [ID |-> rows[i].id, Name |-> rows[i].name, TimeCreated |-> rows[i].time_created]]

\* a key that is unique among the lists not deleted only
ListKeyTakenLive(id) == \E i \in 1..Len(lists) : lists[i].id = id /\ NotDeleted(lists[i])

\* whether INSERT INTO lists hits the PRIMARY KEY constraint on id
ListKeyTaken(id) == \E i \in 1..Len(lists) : lists[i].id = id

\* an insert that binds the ID to the name column too
CreateListNamedByID(id, name, t) ==
    Append(lists, [id |-> id, name |-> id,
                   time_created |-> FormatRFC3339Nano(t), time_deleted |-> NULL])

\* CreateList: INSERT INTO lists (id, name, time_created), read at time t
CreateList(id, name, t) ==
    Append(lists, [id |-> id, name |-> name,
                   time_created |-> FormatRFC3339Nano(t), time_deleted |-> NULL])

\* a DeleteList that brings a deleted list back
DeleteListToggles(id) ==
    [i \in 1..Len(lists) |->
        IF lists[i].id = id
        THEN [lists[i] EXCEPT !.time_deleted = IF @ = NULL THEN CURRENT_TIMESTAMP ELSE NULL]
        ELSE lists[i]]

\* a DeleteList without its WHERE clause
DeleteListAll(id) ==
    [i \in 1..Len(lists) |-> [lists[i] EXCEPT !.time_deleted = CURRENT_TIMESTAMP]]

\* DeleteList: UPDATE lists SET time_deleted = CURRENT_TIMESTAMP WHERE id = ?
DeleteList(id) ==
    [i \in 1..Len(lists) |->
        IF lists[i].id = id
        THEN [lists[i] EXCEPT !.time_deleted = CURRENT_TIMESTAMP]
        ELSE lists[i]]

\* the comparison id = ? of the INTEGER column with a text parameter: the
\* text is converted to a number when it is a numeral
ItemIDMatches(id, itemID) == IsNumeral(itemID) /\ Atoi(itemID) = id

\* getListItems: SELECT id, description, done FROM items
\*               WHERE list_id = ? AND time_deleted IS NULL ORDER BY id
getListItems(listID) ==
    LET Mine(row) == row.list_id = listID /\ NotDeleted(row)
        rows == OrderByID(SelectSeq(items, Mine))
    IN  [i \in 1..Len(rows) |->
            [ID |-> Itoa(rows[i].id), Description |-> rows[i].description,
             Done |-> rows[i].done]]

\* GetList: SELECT id, name FROM lists WHERE id = ? AND time_deleted IS NULL,
\* then the items
GetList(id) ==
    IF \E i \in 1..Len(lists) : lists[i].id = id /\ NotDeleted(lists[i])
    THEN LET i == CHOOSE i \in 1..Len(lists) : lists[i].id = id /\ NotDeleted(lists[i])
         IN  [ID |-> lists[i].id, Name |-> lists[i].name,
              Items |-> getListItems(id), found |-> TRUE]
    ELSE Nil

\* a rowid that is one more than the largest of the items not deleted
NextItemIDLive ==
    LET live == {items[i].id : i \in {j \in 1..Len(items) : items[j].time_deleted = NULL}}
    IN  IF live = {} THEN 1 ELSE 1 + (CHOOSE m \in live : \A n \in live : n <= m)

\* the rowid SQLite gives the next row of items: one more than the largest
NextItemID ==
    IF items = <<>> THEN 1
    ELSE 1 + (CHOOSE m \in {items[i].id : i \in 1..Len(items)} :
                 \A i \in 1..Len(items) : items[i].id <= m)

\* AddItem: INSERT INTO items (list_id, description)
AddItem(listID, description) ==
    Append(items, [id |-> NextItemID, list_id |-> listID, description |-> description,
                   done |-> FALSE, time_deleted |-> NULL])

\* an UpdateDone that flips the flag the row has
UpdateDoneToggles(listID, itemID, done) ==
    [i \in 1..Len(items) |->
        IF items[i].list_id = listID /\ ItemIDMatches(items[i].id, itemID)
        THEN [items[i] EXCEPT !.done = ~@]
        ELSE items[i]]

\* an UpdateDone without the list in its WHERE clause
UpdateDoneAnyList(listID, itemID, done) ==
    [i \in 1..Len(items) |->
        IF ItemIDMatches(items[i].id, itemID)
        THEN [items[i] EXCEPT !.done = done]
        ELSE items[i]]

\* UpdateDone: UPDATE items SET done = ? WHERE list_id = ? AND id = ?
UpdateDone(listID, itemID, done) ==
    [i \in 1..Len(items) |->
        IF items[i].list_id = listID /\ ItemIDMatches(items[i].id, itemID)
        THEN [items[i] EXCEPT !.done = done]
        ELSE items[i]]

\* a hard delete: DELETE FROM items WHERE list_id = ? AND id = ?
DeleteItemDropsRow(listID, itemID) ==
    LET Others(row) == ~(row.list_id = listID /\ ItemIDMatches(row.id, itemID))
    IN  SelectSeq(items, Others)

\* DeleteItem: UPDATE items SET time_deleted = CURRENT_TIMESTAMP
\*             WHERE list_id = ? AND id = ?
DeleteItem(listID, itemID) ==
    [i \in 1..Len(items) |->
        IF items[i].list_id = listID /\ ItemIDMatches(items[i].id, itemID)
        THEN [items[i] EXCEPT !.time_deleted = CURRENT_TIMESTAMP]
        ELSE items[i]]

\* whether INSERT INTO sign_ins hits the PRIMARY KEY constraint on id
SignInKeyTaken(id) == \E row \in sign_ins : row.id = id

\* CreateSignIn: INSERT INTO sign_ins (id), time_created by default
CreateSignIn(id) == sign_ins \cup {[id |-> id, time_created |-> CURRENT_TIMESTAMP]}

\* IsSignInValid: SELECT 1 FROM sign_ins
\*                WHERE id = ? AND time_created > DATETIME('NOW', '-90 DAYS')
IsSignInValid(id) ==
    \E row \in sign_ins : row.id = id /\ StrLess(Cutoff, row.time_created)

\* a DeleteSignIn that signs everyone out
DeleteSignInAll(id) == {}

\* DeleteSignIn: DELETE FROM sign_ins WHERE id = ?
DeleteSignIn(id) == {row \in sign_ins : row.id # id}

----------------------------------------------------------------------------
(* Requests and responses.                                                 *)

FormKeys == {"csrf-token", "name", "list-id", "item-id", "description", "done",
             "username", "password", "return-url"}

\* a form with no field: FormValue gives "" for every key
NoForm == [k \in FormKeys |-> <<>>]

\* r.FormValue(key)
FormValue(r, key) == r.form[key]

\* the paths of the routes
PathHome       == <<"/">>
PathSignIn     == <<"/", "s", "i", "g", "n", "-", "i", "n">>
PathSignOut    == <<"/", "s", "i", "g", "n", "-", "o", "u", "t">>
PathLists      == <<"/", "l", "i", "s", "t", "s", "/">>
PathCreateList == <<"/", "c", "r", "e", "a", "t", "e", "-", "l", "i", "s", "t">>
PathDeleteList == <<"/", "d", "e", "l", "e", "t", "e", "-", "l", "i", "s", "t">>
PathAddItem    == <<"/", "a", "d", "d", "-", "i", "t", "e", "m">>
PathUpdateDone == <<"/", "u", "p", "d", "a", "t", "e", "-", "d", "o", "n", "e">>
PathDeleteItem == <<"/", "d", "e", "l", "e", "t", "e", "-", "i", "t", "e", "m">>

ReturnURLQuery == <<"/", "?", "r", "e", "t", "u", "r", "n", "-", "u", "r", "l", "=">>
SignInErrorQuery ==
    <<"/", "?", "e", "r", "r", "o", "r", "=", "s", "i", "g", "n", "-", "i", "n", "&",
      "r", "e", "t", "u", "r", "n", "-", "u", "r", "l", "=">>

\* a request: the mux pattern that serves it, r.URL.Path, r.Method, the two
\* cookies (<<>> when absent, <<value>> when present), the form, and the
\* storage call that fails while it is served ("none", "guard": the sign-in
\* lookup, "stmt": the handler's first statement, "stmt2": AddItem in /add-item)
Request(route, path, method, signIn, csrfCookie, form, fault) ==
    [route |-> route, path |-> path, query |-> <<>>, method |-> method,
     signIn |-> signIn, csrfCookie |-> csrfCookie, form |-> form, fault |-> fault,
     scheme |-> "http", absolute |-> FALSE]

\* the same request sent over the given scheme (to the server itself or to
\* the TLS proxy in front of it), with a request line that names the path
\* only or the absolute URL
WithScheme(r, scheme, absolute) == [r EXCEPT !.scheme = scheme, !.absolute = absolute]

\* r.URL.Scheme: the URL of a server request is parsed from the request
\* line, so it has a scheme only when the line carries an absolute URL
URLScheme(r) == IF r.absolute THEN r.scheme ELSE ""

\* the sign-in cookie of signIn and signOut
SignInCookie(r, value, maxAge) ==
    [Value |-> value, MaxAge |-> maxAge, Path |-> <<"/">>,
     Secure |-> URLScheme(r) = "https", HttpOnly |-> TRUE, SameSite |-> "Strict"]

\* the same request with the raw query r.URL.RawQuery
WithQuery(r, query) == [r EXCEPT !.query = query]

NoRequest == Request("", <<>>, "", <<>>, <<>>, NoForm, "none")

\* no Set-Cookie header for the sign-in cookie
NoCookie == <<>>

\* the response of a step that finished no request
NoResponse ==
    [req |-> NoRequest, by |-> "", status |-> 0, location |-> <<>>, allow |-> "",
     body |-> "", signInCookie |-> NoCookie, csrfSet |-> <<>>, page |-> <<>>,
     log |-> <<>>]

\* func main once http.ListenAndServe runs, started with -username and
\* SIMPLELISTS_PASSHASH as given
Serving(username, passhash) ==
    [pc |-> "serving", username |-> username, passhash |-> passhash, timezoneOK |-> TRUE,
     dbOpen |-> TRUE]

\* the browser before its first request: no cookie, no page
NoBrowser ==
    [csrf |-> <<>>, signIn |-> <<>>, wanted |-> <<>>, location |-> <<>>,
     page |-> <<>>, forms |-> {}, failed |-> 0, did |-> ""]

\* by: the function that wrote the response
Response(r, by, status, location, body) ==
    [NoResponse EXCEPT !.req = r, !.by = by, !.status = status,
                       !.location = location, !.body = body]

\* http.Redirect with a URL that is an absolute, clean path
Redirect(r, by, location) == Response(r, by, 302, location, "")

\* the Location that http.Redirect sends for url: a URL with a scheme, or
\* one that does not parse, is sent as it is; any other is made a path from
\* the root (relative to the directory of the request's path) and cleaned,
\* its trailing slash and its query kept
RedirectLocation(r, url) ==
    LET u == Parse(url)
    IN  IF u.err \/ u.scheme # <<>> THEN url
        ELSE LET olddir   == SubSeq(r.path, 1, LastSlash(r.path))
                 rooted   == IF url = <<>> \/ url[1] # "/" THEN olddir \o url ELSE url
                 q        == IndexAny(rooted, {"?"})
                 path     == IF q = 0 THEN rooted ELSE SubSeq(rooted, 1, q - 1)
                 query    == IF q = 0 THEN <<>> ELSE SubSeq(rooted, q, Len(rooted))
                 cleaned  == Clean(path)
                 trailing == path # <<>> /\ path[Len(path)] = "/"
             IN  (IF trailing /\ cleaned[Len(cleaned)] # "/" THEN cleaned \o <<"/">>
                  ELSE cleaned) \o query

\* a not-found answered as an internal error
NotFoundAsError(r, by) == Response(r, by, 500, <<>>, "error fetching list")

\* http.NotFound
NotFound(r, by) == Response(r, by, 404, <<>>, "404 page not found")

\* the errors a storage call returns
ErrIO         == "disk I/O error"
ErrConstraint == "UNIQUE constraint failed"

\* an internalError that sends the error to the client and logs nothing
internalErrorLeaks(r, by, msg, err) == Response(r, by, 500, <<>>, err)

\* Server.internalError: the operation and the error are logged, the body
\* names the operation only
internalError(r, by, msg, err) ==
    [Response(r, by, 500, <<>>, msg) EXCEPT !.log = <<[msg |-> msg, err |-> err]>>]

----------------------------------------------------------------------------
(* Sign-in and CSRF guards.                                                *)

\* a bcrypt hash of password p (the salted digest stands for p)
BcryptHash(p) == <<"$", "2", "a", "$">> \o p

\* a comparison that accepts every password
CompareAnyPassword(hash, password) == ""

\* bcrypt.CompareHashAndPassword: "" (nil) on a match
CompareHashAndPassword(hash, password) ==
    IF Len(hash) < 4 \/ SubSeq(hash, 1, 4) # <<"$", "2", "a", "$">> THEN "malformed"
    ELSE IF SubSeq(hash, 5, Len(hash)) = password THEN ""
    ELSE "mismatch"

\* a check of the configured hash that lets every value through
CheckNoPasswordHash(passwordHash) == ""

\* CheckPasswordHash: the hash is compared with the password "x"; a
\* mismatch shows a hash that bcrypt can read, any other error is returned
CheckPasswordHash(passwordHash) ==
    LET err == CompareHashAndPassword(passwordHash, <<"x">>)
    IN  IF err = "mismatch" THEN "" ELSE err

\* getSignInCookie: the cookie's value, "" without the cookie
getSignInCookie(r) == IF r.signIn = <<>> THEN <<>> ELSE r.signIn[1]

\* the guard of a server that takes every request as signed in
isSignedInAnyone(r) == TRUE

\* a guard that looks the cookie up whether or not sign-in is configured
isSignedInLookup(r) == r.fault # "guard" /\ IsSignInValid(getSignInCookie(r))

\* Server.isSignedIn
isSignedIn(r) ==
    IF server.username = <<>> THEN TRUE
    ELSE r.fault # "guard" /\ IsSignInValid(getSignInCookie(r))

\* a check that only wants the cookie to be there
csrfCookieSent(r) == r.csrfCookie # <<>>

\* the check of csrf: the cookie is there and the form's token equals it
csrfTokenOK(r) ==
    r.csrfCookie # <<>> /\ FormValue(r, "csrf-token") = r.csrfCookie[1]

\* Server.signedIn(h): redirect to the home page unless signed in
signedIn(r, h) ==
    IF ~isSignedIn(r)
    THEN /\ resp' = Redirect(r, "signedIn", ReturnURLQuery \o QueryEscape(r.path))
         /\ UNCHANGED <<lists, items, sign_ins, now, inflight, signedOut>>
    ELSE h

\* a csrf that lets every method through to the token check
csrfAnyMethod(r, h) ==
    IF ~csrfTokenOK(r)
    THEN /\ resp' = Response(r, "csrf", 400, <<>>, "invalid CSRF token or cookie")
         /\ UNCHANGED <<lists, items, sign_ins, now, inflight, signedOut>>
    ELSE h

\* csrf(h): POST only, and the CSRF token must match
csrf(r, h) ==
    IF r.method # "POST"
    THEN /\ resp' = [Response(r, "csrf", 405, <<>>, "405 method not allowed")
                        EXCEPT !.allow = "POST"]
         /\ UNCHANGED <<lists, items, sign_ins, now, inflight, signedOut>>
    ELSE IF ~csrfTokenOK(r)
    THEN /\ resp' = Response(r, "csrf", 400, <<>>, "invalid CSRF token or cookie")
         /\ UNCHANGED <<lists, items, sign_ins, now, inflight, signedOut>>
    ELSE h

\* a getCSRFToken that takes a new token for every page
getCSRFTokenFresh(r, k) == <<generateCSRFToken(k), <<generateCSRFToken(k)>>>>

\* getCSRFToken: <<the page's token, the cookie set (or <<>>)>>, under
\* outcome k of the random source
getCSRFToken(r, k) ==
    IF r.csrfCookie # <<>> /\ r.csrfCookie[1] # <<>>
    THEN <<r.csrfCookie[1], <<>>>>
    ELSE <<generateCSRFToken(k), <<generateCSRFToken(k)>>>>

----------------------------------------------------------------------------
(* Handlers.  k is the outcome of the random source the handler draws, d   *)
(* the time that passes before it reads the clock, P the set of requests   *)
(* and the table sizes a specification explores.                           *)

\* the 90 days of the sign-in cookie's MaxAge
signInMaxAge == 90 * 24 * 60 * 60

\* a signIn that sends every client that signed in to the home page
signInHome(r, k) ==
    LET username  == TrimSpace(FormValue(r, "username"))
        password  == FormValue(r, "password")
        id        == generateSignInToken(k)
    IN  IF \/ username # server.username
           \/ CompareHashAndPassword(server.passwordHash, password) # ""
        THEN /\ resp' = Redirect(r, "signIn", SignInErrorQuery \o QueryEscape(PathHome))
             /\ UNCHANGED <<lists, items, sign_ins, now, inflight, signedOut>>
        ELSE IF r.fault = "stmt" \/ SignInKeyTaken(id)
        THEN /\ resp' = internalError(r, "signIn", "error creating sign in",
                                        IF r.fault = "stmt" THEN ErrIO ELSE ErrConstraint)
             /\ UNCHANGED <<lists, items, sign_ins, now, inflight, signedOut>>
        ELSE /\ sign_ins' = CreateSignIn(id)
             /\ resp' = [Redirect(r, "signIn", PathHome)
                            EXCEPT !.signInCookie = <<SignInCookie(r, id, signInMaxAge)>>]
             /\ UNCHANGED <<lists, items, now, inflight, signedOut>>

\* a sign-in whose failure tells an unknown username from a wrong password
signInTelling(r, k) ==
    LET username  == TrimSpace(FormValue(r, "username"))
        password  == FormValue(r, "password")
        returnURL == IF FormValue(r, "return-url") = <<>> THEN PathHome
                     ELSE FormValue(r, "return-url")
        id        == generateSignInToken(k)
    IN  IF username # server.username
        THEN /\ resp' = Redirect(r, "signIn", SignInErrorQuery \o QueryEscape(returnURL)
                                                \o <<"&", "u", "=">> \o QueryEscape(username))
             /\ UNCHANGED <<lists, items, sign_ins, now, inflight, signedOut>>
        ELSE IF CompareHashAndPassword(server.passwordHash, password) # ""
        THEN /\ resp' = Redirect(r, "signIn", SignInErrorQuery \o QueryEscape(returnURL))
             /\ UNCHANGED <<lists, items, sign_ins, now, inflight, signedOut>>
        ELSE IF r.fault = "stmt" \/ SignInKeyTaken(id)
        THEN /\ resp' = internalError(r, "signIn", "error creating sign in",
                                        IF r.fault = "stmt" THEN ErrIO ELSE ErrConstraint)
             /\ UNCHANGED <<lists, items, sign_ins, now, inflight, signedOut>>
        ELSE /\ sign_ins' = CreateSignIn(id)
             /\ resp' = [Redirect(r, "signIn", RedirectLocation(r, returnURL))
                            EXCEPT !.signInCookie = <<SignInCookie(r, id, signInMaxAge)>>]
             /\ UNCHANGED <<lists, items, now, inflight, signedOut>>

\* Server.signIn
signIn(r, k) ==
    LET username  == TrimSpace(FormValue(r, "username"))
        password  == FormValue(r, "password")
        returnURL == IF FormValue(r, "return-url") = <<>> THEN PathHome
                     ELSE FormValue(r, "return-url")
        id        == generateSignInToken(k)
    IN  IF \/ username # server.username
           \/ CompareHashAndPassword(server.passwordHash, password) # ""
        THEN /\ resp' = Redirect(r, "signIn", SignInErrorQuery \o QueryEscape(returnURL))
             /\ UNCHANGED <<lists, items, sign_ins, now, inflight, signedOut>>
        ELSE IF r.fault = "stmt" \/ SignInKeyTaken(id)
        THEN /\ resp' = internalError(r, "signIn", "error creating sign in",
                                        IF r.fault = "stmt" THEN ErrIO ELSE ErrConstraint)
             /\ UNCHANGED <<lists, items, sign_ins, now, inflight, signedOut>>
        ELSE /\ sign_ins' = CreateSignIn(id)
             /\ resp' = [Redirect(r, "signIn", RedirectLocation(r, returnURL))
                            EXCEPT !.signInCookie = <<SignInCookie(r, id, signInMaxAge)>>]
             /\ UNCHANGED <<lists, items, now, inflight, signedOut>>

\* Server.signOut: the clearing cookie is set before the sign-in is deleted
signOut(r) ==
    LET cleared == <<SignInCookie(r, <<>>, -1)>>
    IN  IF r.fault = "stmt"
        THEN /\ resp' = [internalError(r, "signOut", "error deleting sign in", ErrIO)
                            EXCEPT !.signInCookie = cleared]
             /\ UNCHANGED <<lists, items, sign_ins, now, inflight, signedOut>>
        ELSE /\ sign_ins' = DeleteSignIn(getSignInCookie(r))
             /\ signedOut' = signedOut \cup (IF r.signIn = <<>> THEN {} ELSE {r.signIn[1]})
             /\ resp' = [Redirect(r, "signOut", PathHome) EXCEPT !.signInCookie = cleared]
             /\ UNCHANGED <<lists, items, now, inflight>>

\* Server.showList
showList(r, k) ==
    LET id    == SubSeq(r.path, Len(PathLists) + 1, Len(r.path))
        list  == GetList(id)
        token == getCSRFToken(r, k)
    IN  /\ resp' = IF r.fault = "stmt" THEN internalError(r, "showList", "error fetching list", ErrIO)
                   ELSE IF ~list.found THEN NotFound(r, "showList")
                   ELSE [Response(r, "showList", 200, <<>>, "list")
                            EXCEPT !.csrfSet = token[2],
                                   !.page = <<[Token |-> token[1], List |-> list]>>]
        /\ UNCHANGED <<lists, items, sign_ins, now, inflight, signedOut>>

KeyReturnURL == <<"r", "e", "t", "u", "r", "n", "-", "u", "r", "l">>
KeyError     == <<"e", "r", "r", "o", "r">>
ValueSignIn  == <<"s", "i", "g", "n", "-", "i", "n">>

\* Server.home
home(r, k) ==
    LET token      == getCSRFToken(r, k)
        isSignedIn_ == isSignedIn(r)
    IN  /\ resp' = IF server.showLists /\ r.fault = "stmt"
                   THEN internalError(r, "home", "error fetching lists", ErrIO)
                   ELSE [Response(r, "home", 200, <<>>, "home")
                            EXCEPT !.csrfSet = token[2],
                                   !.page = <<[Token       |-> token[1],
                                               Lists       |-> IF server.showLists THEN GetLists
                                                               ELSE <<>>,
                                               ShowSignIn  |-> ~isSignedIn_,
                                               ShowSignOut |-> server.username # <<>> /\ isSignedIn_,
                                               ReturnURL   |-> QueryGet(r.query, KeyReturnURL),
                                               SignInError |-> QueryGet(r.query, KeyError) = ValueSignIn]>>]
        /\ UNCHANGED <<lists, items, sign_ins, now, inflight, signedOut>>

\* homeTmpl: what the home page shows of its data.  The sign-out form with
\* ShowSignOut; with ShowSignIn the sign-in form, otherwise the create-list
\* form and one entry (two links and the date) per list
homeTmpl(data) ==
    [SignOutForm    |-> IF data.ShowSignOut THEN <<[Token |-> data.Token]>> ELSE <<>>,
     SignInForm     |-> IF data.ShowSignIn
                        THEN <<[Token |-> data.Token, ReturnURL |-> data.ReturnURL,
                                SignInError |-> data.SignInError]>>
                        ELSE <<>>,
     CreateListForm |-> IF data.ShowSignIn THEN <<>> ELSE <<[Token |-> data.Token]>>,
     Entries        |-> IF data.ShowSignIn THEN <<>>
                        ELSE [i \in 1..Len(data.Lists) |->
                                 [Href       |-> PathLists \o data.Lists[i].ID,
                                  Text       |-> data.Lists[i].Name,
                                  Title      |-> data.Lists[i].TimeCreated,
                                  DeleteHref |-> PathLists \o data.Lists[i].ID
                                                   \o <<"?", "d", "e", "l", "e", "t", "e", "=", "1">>]]]

\* Server.createList
createList(r, k, d, P) ==
    LET name == TrimSpace(FormValue(r, "name"))
        id   == makeListID(10, k)
        t    == AddNanos(now, d)
    IN  IF name = <<>>
        THEN /\ resp' = Redirect(r, "createList", PathHome)
             /\ UNCHANGED <<lists, items, sign_ins, now, inflight, signedOut>>
        ELSE /\ TicksOf(now) + (d \div HalfSecond) <= P.maxTicks
             /\ now' = t
             /\ IF r.fault = "stmt" \/ ListKeyTaken(id)
                THEN /\ resp' = internalError(r, "createList", "error creating list",
                                        IF r.fault = "stmt" THEN ErrIO ELSE ErrConstraint)
                     /\ UNCHANGED <<lists, items, sign_ins, inflight, signedOut>>
                ELSE /\ Len(lists) < P.maxLists
                     /\ lists' = CreateList(id, name, t)
                     /\ resp' = Redirect(r, "createList", PathLists \o id)
                     /\ UNCHANGED <<items, sign_ins, inflight, signedOut>>

\* Server.createList up to its call of CreateList, for requests served
\* concurrently: a request with a name goes on to makeListID in a later step
createListEnter(r) ==
    LET name == TrimSpace(FormValue(r, "name"))
    IN  /\ resp' = IF name = <<>> THEN Redirect(r, "createList", PathHome) ELSE NoResponse
        /\ UNCHANGED <<lists, items, sign_ins, now, inflight, signedOut>>

\* the response a client gets when the handler's goroutine panics: net/http
\* recovers, logs and closes the connection
Panic(r, by) == [Response(r, by, 0, <<>>, "") EXCEPT !.log = <<[msg |-> "panic", err |-> ""]>>]

\* CreateList's makeListID returns.  m.rnd is one *rand.Rand for all
\* requests and is not locked: when another request was inside makeListID
\* at the same time (q.raced), the generator's state was read and written
\* without synchronisation, and the call returns any ID or panics on an
\* index out of range
createListDrawn(q, k) ==
    /\ q.phase = "drawing"
    /\ \/ /\ creating' = (creating \ {q}) \cup
                              {[q EXCEPT !.phase = "drawn", !.id = makeListID(10, k)]}
          /\ resp' = NoResponse
       \/ /\ q.raced
          /\ creating' = creating \ {q}
          /\ resp' = Panic(q.req, "makeListID")
    /\ UNCHANGED <<lists, items, sign_ins, now, inflight, signedOut>>

\* CreateList from its clock reading and INSERT on, and the response
createListInsert(q, d, P) ==
    LET name == TrimSpace(FormValue(q.req, "name"))
        t    == AddNanos(now, d)
    IN  /\ q.phase = "drawn"
        /\ TicksOf(now) + (d \div HalfSecond) <= P.maxTicks
        /\ now' = t
        /\ creating' = creating \ {q}
        /\ IF ListKeyTaken(q.id)
           THEN /\ resp' = internalError(q.req, "createList", "error creating list",
                                          ErrConstraint)
                /\ UNCHANGED <<lists, items, sign_ins, inflight, signedOut>>
           ELSE /\ Len(lists) < P.maxLists
                /\ lists' = CreateList(q.id, name, t)
                /\ resp' = Redirect(q.req, "createList", PathLists \o q.id)
                /\ UNCHANGED <<items, sign_ins, inflight, signedOut>>

\* Server.deleteList
deleteList(r) ==
    LET id == FormValue(r, "list-id")
    IN  IF r.fault = "stmt"
        THEN /\ resp' = internalError(r, "deleteList", "error deleting list", ErrIO)
             /\ UNCHANGED <<lists, items, sign_ins, now, inflight, signedOut>>
        ELSE /\ lists' = DeleteList(id)
             /\ resp' = Redirect(r, "deleteList", PathHome)
             /\ UNCHANGED <<items, sign_ins, now, inflight, signedOut>>

\* Server.addItem up to its call of AddItem: the list is fetched, and a
\* request with a description goes on to insert in a later step
addItem(r) ==
    LET listID      == FormValue(r, "list-id")
        list        == GetList(listID)
        description == TrimSpace(FormValue(r, "description"))
    IN  IF r.fault = "stmt" \/ ~list.found \/ description = <<>>
        THEN /\ resp' = IF r.fault = "stmt"
                        THEN internalError(r, "addItem", "error fetching list", ErrIO)
                        ELSE IF ~list.found THEN NotFound(r, "addItem")
                        ELSE Redirect(r, "addItem", PathLists \o list.ID)
             /\ UNCHANGED <<lists, items, sign_ins, now, inflight, signedOut>>
        ELSE /\ Cardinality(inflight) < MaxInflight
             /\ inflight' = inflight \cup
                    {[req |-> r, listID |-> list.ID, description |-> description]}
             /\ resp' = NoResponse
             /\ UNCHANGED <<lists, items, sign_ins, now, signedOut>>

\* Server.addItem from its call of AddItem on
addItemInsert(q, P) ==
    /\ inflight' = inflight \ {q}
    /\ IF q.req.fault = "stmt2"
       THEN /\ resp' = internalError(q.req, "addItem", "error adding item", ErrIO)
            /\ UNCHANGED <<lists, items, sign_ins, now, signedOut>>
       ELSE /\ Len(items) < P.maxItems
            /\ items' = AddItem(q.listID, q.description)
            /\ resp' = Redirect(q.req, "addItem", PathLists \o q.listID)
            /\ UNCHANGED <<lists, sign_ins, now, signedOut>>

\* an updateDone that fetches the list first and answers 404 without it
updateDoneChecked(r) ==
    LET listID == FormValue(r, "list-id")
        itemID == FormValue(r, "item-id")
        done   == FormValue(r, "done") = <<"o", "n">>
    IN  IF r.fault = "stmt"
        THEN /\ resp' = internalError(r, "updateDone", "error updating done flag", ErrIO)
             /\ UNCHANGED <<lists, items, sign_ins, now, inflight, signedOut>>
        ELSE IF ~GetList(listID).found
        THEN /\ resp' = NotFound(r, "updateDone")
             /\ UNCHANGED <<lists, items, sign_ins, now, inflight, signedOut>>
        ELSE /\ items' = UpdateDone(listID, itemID, done)
             /\ resp' = Redirect(r, "updateDone", PathLists \o listID)
             /\ UNCHANGED <<lists, sign_ins, now, inflight, signedOut>>

\* Server.updateDone
updateDone(r) ==
    LET listID == FormValue(r, "list-id")
        itemID == FormValue(r, "item-id")
        done   == FormValue(r, "done") = <<"o", "n">>
    IN  IF r.fault = "stmt"
        THEN /\ resp' = internalError(r, "updateDone", "error updating done flag", ErrIO)
             /\ UNCHANGED <<lists, items, sign_ins, now, inflight, signedOut>>
        ELSE /\ items' = UpdateDone(listID, itemID, done)
             /\ resp' = Redirect(r, "updateDone", PathLists \o listID)
             /\ UNCHANGED <<lists, sign_ins, now, inflight, signedOut>>

\* Server.deleteItem
deleteItem(r) ==
    LET listID == FormValue(r, "list-id")
        itemID == FormValue(r, "item-id")
    IN  IF r.fault = "stmt"
        THEN /\ resp' = internalError(r, "deleteItem", "error deleting item", ErrIO)
             /\ UNCHANGED <<lists, items, sign_ins, now, inflight, signedOut>>
        ELSE /\ items' = DeleteItem(listID, itemID)
             /\ resp' = Redirect(r, "deleteItem", PathLists \o listID)
             /\ UNCHANGED <<lists, sign_ins, now, inflight, signedOut>>

----------------------------------------------------------------------------
(* Routes (Server.addRoutes): one action per route, over the requests of P. *)

Admin == <<"b", "e", "n">>
Eve   == <<"e", "v", "e">>
Pw    == <<"p", "w">>
Bad   == <<"n", "o">>
On    == <<"o", "n">>

ListIDs(n) == {makeListID(10, k) : k \in 1..n}
Tokens(n)  == {generateSignInToken(k) : k \in 1..n}
CSRF1      == generateCSRFToken(1)
\* a cookie value the server never issued
Bogus      == <<"x">>

\* the time that passes before a handler reads the clock
Elapsed == {HalfSecond, NanosPerSecond}

\* the form of a request: the CSRF token and the fields given
Form(token, fields) == [k \in FormKeys |-> IF k = "csrf-token" THEN token
                                           ELSE IF k \in DOMAIN fields THEN fields[k]
                                           ELSE <<>>]

\* how a request reaches the server: <<scheme, absolute>>.  A browser sends
\* the path alone in the request line, over http or https; a client of a
\* forward proxy sends the absolute URL
PlainHTTP == <<"http", FALSE>>
Schemes   == {PlainHTTP, <<"https", FALSE>>, <<"http", TRUE>>, <<"https", TRUE>>}

HomeRoute(P) ==
    /\ \E si \in P.signIns, cs \in P.csrfs, f \in P.faults \cap {"none", "guard", "stmt"} :
           LET r == Request("/", PathHome, "GET", si, cs[1], NoForm, f)
           IN  home(r, 1)
    /\ UNCHANGED <<server, browser, creating, main>>

SignInRoute(P) ==
    /\ \E m \in P.methods, cs \in P.csrfs, f \in P.faults \cap {"none", "stmt"},
          u \in P.usernames, pw \in P.passwords, ru \in P.returnURLs, k \in 1..P.tokenDraws,
          sc \in P.schemes :
           LET q == Request("/sign-in", PathSignIn, m, <<>>, cs[1],
                            Form(cs[2], "username" :> u @@ "password" :> pw @@ "return-url" :> ru),
                            f)
               r == WithScheme(q, sc[1], sc[2])
           IN  csrf(r, signIn(r, k))
    /\ UNCHANGED <<server, browser, creating, main>>

SignOutRoute(P) ==
    /\ \E m \in P.methods, si \in P.signIns, cs \in P.csrfs,
          f \in P.faults \cap {"none", "guard", "stmt"}, sc \in P.schemes :
           LET q == Request("/sign-out", PathSignOut, m, si, cs[1], Form(cs[2], <<>>), f)
               r == WithScheme(q, sc[1], sc[2])
           IN  signedIn(r, csrf(r, signOut(r)))
    /\ UNCHANGED <<server, browser, creating, main>>

ShowListRoute(P) ==
    /\ \E si \in P.signIns, cs \in P.csrfs, f \in P.faults \cap {"none", "guard", "stmt"},
          id \in P.listIDs :
           LET r == Request("/lists/", PathLists \o id, "GET", si, cs[1], NoForm, f)
           IN  signedIn(r, showList(r, 1))
    /\ UNCHANGED <<server, browser, creating, main>>

CreateListRoute(P) ==
    /\ \E m \in P.methods, si \in P.signIns, cs \in P.csrfs,
          f \in P.faults \cap {"none", "guard", "stmt"},
          name \in P.names, k \in 1..P.listDraws, d \in Elapsed :
           LET r == Request("/create-list", PathCreateList, m, si, cs[1],
                            Form(cs[2], "name" :> name), f)
           IN  signedIn(r, csrf(r, createList(r, k, d, P)))
    /\ UNCHANGED <<server, browser, creating, main>>

DeleteListRoute(P) ==
    /\ \E m \in P.methods, si \in P.signIns, cs \in P.csrfs,
          f \in P.faults \cap {"none", "guard", "stmt"}, id \in P.listIDs :
           LET r == Request("/delete-list", PathDeleteList, m, si, cs[1],
                            Form(cs[2], "list-id" :> id), f)
           IN  signedIn(r, csrf(r, deleteList(r)))
    /\ UNCHANGED <<server, browser, creating, main>>

AddItemRoute(P) ==
    /\ \E m \in P.methods, si \in P.signIns, cs \in P.csrfs, f \in P.faults,
          id \in P.listIDs, description \in P.descriptions :
           LET r == Request("/add-item", PathAddItem, m, si, cs[1],
                            Form(cs[2], "list-id" :> id @@ "description" :> description), f)
           IN  signedIn(r, csrf(r, addItem(r)))
    /\ UNCHANGED <<server, browser, creating, main>>

AddItemInsert(P) ==
    /\ \E q \in inflight : addItemInsert(q, P)
    /\ UNCHANGED <<server, browser, creating, main>>

UpdateDoneRoute(P) ==
    /\ \E m \in P.methods, si \in P.signIns, cs \in P.csrfs,
          f \in P.faults \cap {"none", "guard", "stmt"},
          id \in P.listIDs, item \in P.itemIDs, done \in P.dones :
           LET r == Request("/update-done", PathUpdateDone, m, si, cs[1],
                            Form(cs[2], "list-id" :> id @@ "item-id" :> item @@ "done" :> done),
                            f)
           IN  signedIn(r, csrf(r, updateDone(r)))
    /\ UNCHANGED <<server, browser, creating, main>>

DeleteItemRoute(P) ==
    /\ \E m \in P.methods, si \in P.signIns, cs \in P.csrfs,
          f \in P.faults \cap {"none", "guard", "stmt"},
          id \in P.listIDs, item \in P.itemIDs :
           LET r == Request("/delete-item", PathDeleteItem, m, si, cs[1],
                            Form(cs[2], "list-id" :> id @@ "item-id" :> item), f)
           IN  signedIn(r, csrf(r, deleteItem(r)))
    /\ UNCHANGED <<server, browser, creating, main>>

\* /create-list requests being served at the same time
MaxCreating == 2

\* a /create-list request arrives on a free connection while others are
\* being served; requests that are inside makeListID together have raced
CreateListEnter(P) ==
    /\ \E m \in P.methods, si \in P.signIns, cs \in P.csrfs, name \in P.names,
          conn \in 1..MaxCreating :
           LET r == Request("/create-list", PathCreateList, m, si, cs[1],
                            Form(cs[2], "name" :> name), "none")
               drawing == {q \in creating : q.phase = "drawing"}
           IN  /\ \A q \in creating : q.conn # conn
               /\ signedIn(r, csrf(r, createListEnter(r)))
               /\ creating' =
                     IF resp' # NoResponse THEN creating
                     ELSE {[q EXCEPT !.overlap = TRUE, !.raced = @ \/ q \in drawing] :
                              q \in creating}
                          \cup {[conn |-> conn, req |-> r, phase |-> "drawing", id |-> <<>>,
                                  overlap |-> creating # {}, raced |-> drawing # {}]}
    /\ UNCHANGED <<server, browser, main>>

CreateListDrawn(P) ==
    /\ \E q \in creating, k \in 1..P.listDraws : createListDrawn(q, k)
    /\ UNCHANGED <<server, browser, main>>

CreateListInsert(P) ==
    /\ \E q \in creating : createListInsert(q, HalfSecond, P)
    /\ UNCHANGED <<server, browser, main>>

\* time passes between requests
Tick(P) ==
    \E d \in Elapsed :
        /\ TicksOf(now) + (d \div HalfSecond) <= P.maxTicks
        /\ now' = AddNanos(now, d)
        /\ resp' = NoResponse
        /\ UNCHANGED <<lists, items, sign_ins, inflight, signedOut, server, browser,
                   creating, main>>

\* a long time passes: a second less than the 90 days a sign-in is valid
Jump ==
    /\ JumpsOf(now) < MaxJumps
    /\ now' = [now EXCEPT !.sec = @ + JumpSec]
    /\ resp' = NoResponse
    /\ UNCHANGED <<lists, items, sign_ins, inflight, signedOut, server, browser,
                   creating, main>>

Serve(P) ==
    \/ SignInRoute(P)
    \/ SignOutRoute(P)
    \/ ShowListRoute(P)
    \/ CreateListRoute(P)
    \/ DeleteListRoute(P)
    \/ AddItemRoute(P)
    \/ AddItemInsert(P)
    \/ UpdateDoneRoute(P)
    \/ DeleteItemRoute(P)

----------------------------------------------------------------------------
(* A browser (the cookie jar and form parsing of TestServer): it keeps the *)
(* cookies it is sent, follows redirects, and submits the forms of the     *)
(* pages it was served, also those of earlier pages.                       *)

\* the mux of addRoutes for a GET of a URL the browser is sent to
Dispatch(r, k) ==
    IF r.path = PathHome THEN home(r, k)
    ELSE IF Len(r.path) >= Len(PathLists) /\ SubSeq(r.path, 1, Len(PathLists)) = PathLists
    THEN signedIn(r, showList(r, k))
    ELSE /\ resp' = NotFound(r, "mux")
         /\ UNCHANGED <<lists, items, sign_ins, now, inflight, signedOut>>

RouteOf(path) ==
    IF Len(path) >= Len(PathLists) /\ SubSeq(path, 1, Len(PathLists)) = PathLists
    THEN "/lists/" ELSE "/"

\* the browser's request: its cookies go with it
BrowserRequest(route, url, method, form) ==
    WithQuery(Request(route, Cut(url, "?")[1], method, browser.signIn, browser.csrf,
                      form, "none"),
              Cut(url, "?")[2])

\* the browser after the response: cookies set are kept (MaxAge < 0 removes
\* one), a redirect is where it goes next, a page is shown and its forms
\* are remembered
Receive(did, rsp, wanted, failed) ==
    [csrf     |-> IF rsp.csrfSet # <<>> THEN rsp.csrfSet ELSE browser.csrf,
     signIn   |-> IF rsp.signInCookie = NoCookie THEN browser.signIn
                  ELSE IF rsp.signInCookie[1].MaxAge < 0 THEN <<>>
                  ELSE <<rsp.signInCookie[1].Value>>,
     wanted   |-> wanted,
     location |-> IF rsp.status = 302 THEN rsp.location ELSE <<>>,
     page     |-> rsp.page,
     forms    |-> browser.forms \cup {rsp.page[i].Token : i \in 1..Len(rsp.page)},
     failed   |-> failed,
     did      |-> did]

\* failed sign-in attempts in a row
MaxFailed == 2

\* the user opens a URL: the home page or a list
BrowserOpen(P) ==
    /\ \E url \in {PathHome} \cup {PathLists \o id : id \in P.listIDs}, k \in 1..P.tokenDraws :
           LET r == BrowserRequest(RouteOf(url), url, "GET", NoForm)
           IN  /\ Dispatch(r, k)
               /\ browser' = Receive("open", resp',
                                      IF resp'.by = "signedIn" THEN r.path ELSE <<>>, 0)
    /\ UNCHANGED <<server, creating, main>>

\* the browser follows the redirect it was sent
BrowserFollow(P) ==
    /\ browser.location # <<>>
    /\ \E k \in 1..P.tokenDraws :
           LET r == BrowserRequest(RouteOf(Cut(browser.location, "?")[1]),
                                   browser.location, "GET", NoForm)
           IN  /\ Dispatch(r, k)
               /\ browser' = Receive("follow", resp', browser.wanted, browser.failed)
    /\ UNCHANGED <<server, creating, main>>

\* the user submits the sign-in form of the home page shown, with the token
\* of that or of an earlier page
BrowserSignIn(P) ==
    /\ browser.page # <<>>
    /\ resp.by = "home"
    /\ browser.page[1].ShowSignIn
    /\ \E token \in browser.forms, pw \in P.passwords, k \in 1..P.tokenDraws :
           LET r == BrowserRequest("/sign-in", PathSignIn, "POST",
                        Form(token, "username" :> server.username @@ "password" :> pw
                                    @@ "return-url" :> browser.page[1].ReturnURL))
           IN  /\ BcryptHash(pw) # server.passwordHash => browser.failed < MaxFailed
               /\ csrf(r, signIn(r, k))
               /\ browser' = Receive("signIn", resp', browser.wanted,
                                      IF resp'.signInCookie = NoCookie
                                      THEN browser.failed + 1 ELSE browser.failed)
    /\ UNCHANGED <<server, creating, main>>

\* the user submits the sign-out form of the home page shown
BrowserSignOut ==
    /\ browser.page # <<>>
    /\ resp.by = "home"
    /\ browser.page[1].ShowSignOut
    /\ \E token \in browser.forms :
           LET r == BrowserRequest("/sign-out", PathSignOut, "POST", Form(token, <<>>))
           IN  /\ signedIn(r, csrf(r, signOut(r)))
               /\ browser' = Receive("signOut", resp', <<>>, 0)
    /\ UNCHANGED <<server, creating, main>>

\* the user submits the create-list form of the home page shown
BrowserCreateList(P) ==
    /\ browser.page # <<>>
    /\ resp.by = "home"
    /\ ~browser.page[1].ShowSignIn
    /\ \E token \in browser.forms, name \in P.names, k \in 1..P.listDraws :
           LET r == BrowserRequest("/create-list", PathCreateList, "POST",
                                   Form(token, "name" :> name))
           IN  /\ signedIn(r, csrf(r, createList(r, k, HalfSecond, P)))
               /\ browser' = Receive("createList", resp', <<>>, 0)
    /\ UNCHANGED <<server, creating, main>>

----------------------------------------------------------------------------
(* Specifications.                                                         *)

\* NewSQLModel on an empty database, NewServer with the given configuration
InitWith(username, passwordHash, showLists) ==
    /\ lists = <<>>
    /\ items = <<>>
    /\ sign_ins = {}
    /\ now = [sec |-> StartSec, nsec |-> 0]
    /\ inflight = {}
    /\ resp = NoResponse
    /\ signedOut = {}
    /\ server = [username |-> username, passwordHash |-> passwordHash,
                 showLists |-> showLists]
    /\ browser = NoBrowser
    /\ creating = {}
    /\ main = Serving(username, passwordHash)

\* the requests of a browser that follows the pages of a server without
\* sign-in (as in TestServer), no storage call failing; here the lists are
\* the subject
Browser ==
    [methods |-> {"POST"}, signIns |-> {<<>>}, csrfs |-> {<<<<CSRF1>>, CSRF1>>},
     faults |-> {"none"}, schemes |-> {PlainHTTP},
     usernames |-> {Admin}, passwords |-> {Pw}, returnURLs |-> {<<>>},
     names |-> {<<"a">>, <<" ", "b", " ">>},
     descriptions |-> {<<"m">>},
     listIDs |-> ListIDs(MaxDraws), itemIDs |-> {Itoa(i) : i \in 1..SmallItems},
     dones |-> {On, <<>>},
     maxLists |-> MaxLists, maxItems |-> SmallItems, maxTicks |-> MaxTicks,
     listDraws |-> MaxDraws, tokenDraws |-> SmallDraws]

Init == InitWith(<<>>, <<>>, TRUE)
Next == Serve(Browser)
Spec == Init /\ [][Next]_vars

\* the same browser, the items of one list the subject
ItemsBrowser ==
    [Browser EXCEPT !.names = {<<"a">>},
                    !.descriptions = {<<"m">>, <<" ", "e">>},
                    !.listIDs = ListIDs(SmallDraws),
                    !.itemIDs = {Itoa(i) : i \in 1..MaxItems},
                    !.maxLists = SmallLists, !.maxItems = MaxItems,
                    !.listDraws = SmallDraws]

NextItems == Serve(ItemsBrowser)
SpecItems == Init /\ [][NextItems]_vars

\* a server with sign-in; clients that present no, a bogus or an issued
\* sign-in cookie, while the sign-in lookup works or fails
GuardClients ==
    [methods |-> {"POST"},
     signIns |-> {<<>>, <<Bogus>>} \cup {<<t>> : t \in Tokens(SmallDraws)},
     csrfs |-> {<<<<CSRF1>>, CSRF1>>},
     faults |-> {"none", "guard"}, schemes |-> {PlainHTTP},
     usernames |-> {Admin}, passwords |-> {Pw}, returnURLs |-> {<<>>},
     names |-> {<<"a">>},
     descriptions |-> {<<"m">>},
     listIDs |-> ListIDs(SmallDraws), itemIDs |-> {Itoa(i) : i \in 1..SmallItems},
     dones |-> {On},
     maxLists |-> SmallLists, maxItems |-> SmallItems, maxTicks |-> MaxTicks,
     listDraws |-> SmallDraws, tokenDraws |-> SmallDraws]

InitAuth == InitWith(Admin, BcryptHash(Pw), TRUE)
NextGuard == Serve(GuardClients)
SpecGuard == InitAuth /\ [][NextGuard]_vars

\* clients with the storage statement of a handler failing too, and with
\* tokens that differ or not from the cookie; the sign-in cookie, where
\* sent, is the one the server issues
CsrfClients ==
    [GuardClients EXCEPT
        !.signIns = {<<t>> : t \in Tokens(SmallDraws)},
        !.csrfs = {<<<<>>, <<>>>>, <<<<>>, CSRF1>>, <<<<CSRF1>>, CSRF1>>,
                   <<<<CSRF1>>, <<>>>>, <<<<CSRF1>>, Bogus>>},
        !.faults = {"none"}]

NextCsrf == Serve(CsrfClients)
SpecCsrf == InitAuth /\ [][NextCsrf]_vars

\* clients that sign in and out, with right and wrong credentials, while
\* the random source may repeat itself
SignInClients ==
    [GuardClients EXCEPT
        !.signIns = {<<>>} \cup {<<t>> : t \in Tokens(MaxDraws)},
        !.csrfs = {<<<<CSRF1>>, CSRF1>>, <<<<CSRF1>>, <<>>>>},
        !.faults = {"none", "stmt"},
        !.usernames = {Admin, <<" ">> \o Admin \o <<" ">>, Eve, <<>>},
        !.passwords = {Pw, Bad},
        !.tokenDraws = MaxDraws]

NextSignIn ==
    \/ SignInRoute(SignInClients)
    \/ SignOutRoute(SignInClients)
    \/ ShowListRoute(SignInClients)
SpecSignIn == InitAuth /\ [][NextSignIn]_vars

\* clients that keep a sign-in cookie while time passes
AgingClients ==
    [GuardClients EXCEPT
        !.signIns = {<<t>> : t \in Tokens(SmallDraws)} \cup {<<Bogus>>},
        !.faults = {"none"},
        !.maxTicks = LongTicks]

NextExpiry ==
    \/ SignInRoute(AgingClients)
    \/ SignOutRoute(AgingClients)
    \/ ShowListRoute(AgingClients)
    \/ Tick(AgingClients)
    \/ Jump
SpecExpiry == InitAuth /\ [][NextExpiry]_vars

\* clients that send GET where the route wants POST, signed in or not
MethodClients ==
    [GuardClients EXCEPT
        !.methods = {"GET", "POST"},
        !.signIns = {<<>>} \cup {<<t>> : t \in Tokens(SmallDraws)},
        !.faults = {"none"}]

NextMethods == Serve(MethodClients)
SpecMethods == InitAuth /\ [][NextMethods]_vars

\* a browser session on a server with sign-in: right and wrong passwords,
\* and a random source with more than one outcome
SessionClients ==
    [GuardClients EXCEPT !.passwords = {Pw, Bad}, !.tokenDraws = MaxDraws]

NextSession ==
    \/ BrowserOpen(SessionClients)
    \/ BrowserFollow(SessionClients)
    \/ BrowserSignIn(SessionClients)
    \/ BrowserSignOut
    \/ BrowserCreateList(SessionClients)
SpecSession == InitAuth /\ [][NextSession]_vars

\* the clients of SpecGuard on a server without sign-in
NextOpen == Serve(GuardClients)
SpecOpen == Init /\ [][NextOpen]_vars

\* clients with the cookie the server issues, whose storage calls fail: the
\* guard's lookup, the handler's statement, the second call of /add-item
FaultClients ==
    [GuardClients EXCEPT
        !.signIns = {<<t>> : t \in Tokens(SmallDraws)},
        !.faults = {"none", "guard", "stmt", "stmt2"}]

NextFaults ==
    \/ HomeRoute(FaultClients)
    \/ Serve(FaultClients)
SpecFaults == InitAuth /\ [][NextFaults]_vars

\* the browser of Spec with /create-list requests served concurrently
RaceClients == [Browser EXCEPT !.maxLists = MaxCreating]

NextRace ==
    \/ CreateListEnter(RaceClients)
    \/ CreateListDrawn(RaceClients)
    \/ CreateListInsert(RaceClients)
    \/ ShowListRoute(RaceClients)
    \/ DeleteListRoute(RaceClients)
SpecRace == Init /\ [][NextRace]_vars

\* the browser of Spec, creating, showing and deleting lists only
NextLists ==
    \/ ShowListRoute(Browser)
    \/ CreateListRoute(Browser)
    \/ DeleteListRoute(Browser)
SpecLists == Init /\ [][NextLists]_vars

\* the browser of Spec with two lists and two items, and item IDs written
\* as the pages show them or with a leading zero; lists are not deleted
DoneClients ==
    [Browser EXCEPT !.names = {<<"a">>},
                    !.itemIDs = {Itoa(i) : i \in 1..MaxItems} \cup {<<"0", "1">>},
                    !.maxItems = MaxItems]

NextDone ==
    \/ CreateListRoute(DoneClients)
    \/ AddItemRoute(DoneClients)
    \/ AddItemInsert(DoneClients)
    \/ UpdateDoneRoute(DoneClients)
SpecDone == Init /\ [][NextDone]_vars

\* the browser of Spec submitting names and descriptions that are empty,
\* blank, or have white space around them
BlankClients ==
    [Browser EXCEPT !.names = {<<>>, <<" ">>, <<"a">>},
                    !.descriptions = {<<>>, <<" ", " ">>, <<" ", "e", " ">>},
                    !.listIDs = ListIDs(SmallDraws),
                    !.maxLists = SmallLists, !.maxItems = MaxItems,
                    !.listDraws = SmallDraws]

NextBlank ==
    \/ CreateListRoute(BlankClients)
    \/ ShowListRoute(BlankClients)
    \/ AddItemRoute(BlankClients)
    \/ AddItemInsert(BlankClients)
SpecBlank == Init /\ [][NextBlank]_vars

\* clients that fail to sign in one way or another, from pages with
\* different return URLs, and that succeed now and then
FailingClients ==
    [SignInClients EXCEPT
        !.csrfs = {<<<<CSRF1>>, CSRF1>>},
        !.usernames = {Admin, Eve, <<>>},
        !.passwords = {Pw, Bad, <<>>},
        !.returnURLs = {<<>>, PathLists \o <<"b">>, <<"/", "?", "a", "=", "1">>},
        !.tokenDraws = SmallDraws]

NextFailing ==
    \/ SignInRoute(FailingClients)
    \/ SignOutRoute(FailingClients)
SpecFailing == InitAuth /\ [][NextFailing]_vars

\* the browser of Spec on a server whose random source takes many
\* outcomes; one list is created and shown
IDClients ==
    [Browser EXCEPT !.names = {<<"a">>},
                    !.listIDs = ListIDs(IDDraws),
                    !.maxLists = SmallLists,
                    !.listDraws = IDDraws]

NextIDs ==
    \/ CreateListRoute(IDClients)
    \/ ShowListRoute(IDClients)
SpecIDs == Init /\ [][NextIDs]_vars

\* clients that sign in and out over http and over https
SchemeClients ==
    [GuardClients EXCEPT !.faults = {"none"},
                         !.schemes = Schemes,
                         !.signIns = {<<>>} \cup {<<t>> : t \in Tokens(SmallDraws)}]

NextScheme ==
    \/ SignInRoute(SchemeClients)
    \/ SignOutRoute(SchemeClients)
    \/ Tick(SchemeClients)
SpecScheme == InitAuth /\ [][NextScheme]_vars

\* the browser of Spec, and clients whose csrf-token cookie is there with
\* an empty value ("Cookie: csrf-token="), the form's token empty or not
EmptyToken == <<>>
EmptyTokenClients ==
    [Browser EXCEPT !.csrfs = {<<<<CSRF1>>, CSRF1>>, <<<<CSRF1>>, EmptyToken>>,
                               <<<<>>, EmptyToken>>,
                               <<<<EmptyToken>>, EmptyToken>>, <<<<EmptyToken>>, CSRF1>>},
                    !.names = {<<"a">>},
                    !.listIDs = ListIDs(SmallDraws),
                    !.listDraws = SmallDraws]

NextEmptyToken ==
    \/ CreateListRoute(EmptyTokenClients)
    \/ DeleteListRoute(EmptyTokenClients)
    \/ ShowListRoute(EmptyTokenClients)
SpecEmptyToken == Init /\ [][NextEmptyToken]_vars

\* the browser of SpecItems with /delete-list served between the two
\* statements of an /add-item
NextAddRace ==
    \/ CreateListRoute(ItemsBrowser)
    \/ AddItemRoute(ItemsBrowser)
    \/ AddItemInsert(ItemsBrowser)
    \/ DeleteListRoute(ItemsBrowser)
    \/ ShowListRoute(ItemsBrowser)
SpecAddRace == Init /\ [][NextAddRace]_vars

\* a site of someone else, as an absolute and as a scheme-relative URL
Elsewhere         == <<"h", "t", "t", "p", "s", ":", "/", "/", "e">>
ElsewhereRelative == <<"/", "/", "e">>

\* clients that sign in from a sign-in form whose return-url was taken from
\* the query of a link: a page of this site, a relative or an unclean path,
\* or another site
ReturnClients ==
    [SignInClients EXCEPT
        !.csrfs = {<<<<CSRF1>>, CSRF1>>},
        !.faults = {"none"},
        !.usernames = {Admin},
        !.passwords = {Pw, Bad},
        !.returnURLs = {<<>>, PathLists \o <<"b">>, <<"b">>, <<"/", "a", "/", ".", ".", "/", "b", "/">>,
                        Elsewhere, ElsewhereRelative},
        !.tokenDraws = MaxDraws]

NextReturn ==
    \/ SignInRoute(ReturnClients)
    \/ SignOutRoute(ReturnClients)
SpecReturn == InitAuth /\ [][NextReturn]_vars

\* a server with sign-in that shows lists on its home page; clients with
\* and without a valid sign-in cookie create and delete lists and open the
\* home page
HomeClients ==
    [GuardClients EXCEPT !.faults = {"none"},
                         !.names = {<<"a">>, <<"b">>},
                         !.listIDs = ListIDs(MaxDraws),
                         !.maxLists = MaxLists,
                         !.listDraws = MaxDraws]

NextHome ==
    \/ SignInRoute(HomeClients)
    \/ CreateListRoute(HomeClients)
    \/ DeleteListRoute(HomeClients)
    \/ HomeRoute(HomeClients)
SpecHome == InitAuth /\ [][NextHome]_vars

\* the browser of SpecDone adding items to two lists and deleting them
NextItemIDs ==
    \/ CreateListRoute(DoneClients)
    \/ AddItemRoute(DoneClients)
    \/ AddItemInsert(DoneClients)
    \/ DeleteItemRoute(DoneClients)
SpecItemIDs == Init /\ [][NextItemIDs]_vars

\* signed-in clients that sign in and out while DeleteSignIn works or fails
SignOutClients ==
    [SignInClients EXCEPT
        !.signIns = {<<t>> : t \in Tokens(MaxDraws)},
        !.csrfs = {<<<<CSRF1>>, CSRF1>>},
        !.usernames = {Admin},
        !.passwords = {Pw}]

NextSignOut ==
    \/ SignInRoute(SignOutClients)
    \/ SignOutRoute(SignOutClients)
    \/ ShowListRoute(SignOutClients)
SpecSignOut == InitAuth /\ [][NextSignOut]_vars

\* func main from flag.Parse on (without -genpass): the process is started
\* with or without -username, with SIMPLELISTS_PASSHASH unset, set to a
\* bcrypt hash or set to something else, and with a -timezone that
\* time.LoadLocation knows or not
Started(username, passhash, timezoneOK) ==
    [pc |-> "start", username |-> username, passhash |-> passhash,
     timezoneOK |-> timezoneOK, dbOpen |-> FALSE]

\* what the deployment may put into SIMPLELISTS_PASSHASH
PassHashes == {<<>>, BcryptHash(Pw), BcryptHash(<<"x">>), Pw, <<"$", "2", "a">>}

InitMain ==
    /\ \E u \in {<<>>, Admin}, h \in PassHashes, tz \in BOOLEAN :
           main = Started(u, h, tz)
    /\ lists = <<>>
    /\ items = <<>>
    /\ sign_ins = {}
    /\ now = [sec |-> StartSec, nsec |-> 0]
    /\ inflight = {}
    /\ resp = NoResponse
    /\ signedOut = {}
    /\ server = [username |-> <<>>, passwordHash |-> <<>>, showLists |-> TRUE]
    /\ browser = NoBrowser
    /\ creating = {}

\* log.Fatal: the process is gone
Exit == [main EXCEPT !.pc = "exited"]

\* main, the password hash: read and checked only with a username
MainCheckHash ==
    /\ main.pc = "start"
    /\ main' = IF main.username # <<>>
                    /\ (main.passhash = <<>> \/ CheckPasswordHash(main.passhash) # "")
               THEN Exit
               ELSE [main EXCEPT !.pc = "checked"]
    /\ UNCHANGED <<lists, items, sign_ins, now, inflight, resp, signedOut, server, browser,
                   creating>>

\* main, sql.Open, NewSQLModel and NewServer: the database is opened, then
\* the server is built unless the time zone is unknown
MainOpen ==
    /\ main.pc = "checked"
    /\ main' = IF main.timezoneOK THEN [main EXCEPT !.pc = "built", !.dbOpen = TRUE]
               ELSE [Exit EXCEPT !.dbOpen = TRUE]
    /\ server' = IF main.timezoneOK
                 THEN [server EXCEPT !.username = main.username,
                                     !.passwordHash = IF main.username # <<>>
                                                      THEN main.passhash ELSE <<>>]
                 ELSE server
    /\ UNCHANGED <<lists, items, sign_ins, now, inflight, resp, signedOut, browser, creating>>

\* main, http.ListenAndServe
MainListen ==
    /\ main.pc = "built"
    /\ main' = [main EXCEPT !.pc = "serving"]
    /\ UNCHANGED <<lists, items, sign_ins, now, inflight, resp, signedOut, server, browser,
                   creating>>

\* requests are answered only while http.ListenAndServe runs
Listening == main.pc = "serving"

\* the clients of a process started either way: they sign in with the right
\* or a wrong password and then create lists
MainClients ==
    [GuardClients EXCEPT !.faults = {"none"},
                         !.signIns = {<<>>} \cup {<<t>> : t \in Tokens(SmallDraws)},
                         !.passwords = {Pw, <<"x">>}]

NextMain ==
    \/ MainCheckHash
    \/ MainOpen
    \/ MainListen
    \/ Listening /\ HomeRoute(MainClients)
    \/ Listening /\ SignInRoute(MainClients)
    \/ Listening /\ CreateListRoute(MainClients)

SpecMain == InitMain /\ [][NextMain]_vars

----------------------------------------------------------------------------
(* Properties.                                                             *)

\* the routes behind signedIn, and the routes behind csrf
GuardedRoutes == {"/sign-out", "/lists/", "/create-list", "/delete-list", "/add-item",
                  "/update-done", "/delete-item"}
CsrfRoutes == {"/sign-in", "/sign-out", "/create-list", "/delete-list", "/add-item",
               "/update-done", "/delete-item"}

\* the requests a step receives: the one it answers, or the one it puts in
\* flight (a step that completes a request in flight receives none)
Received ==
    (IF inflight' = inflight /\ resp'.req # NoRequest THEN {resp'.req} ELSE {})
        \cup {q.req : q \in inflight' \ inflight}

\* the value of the request's sign-in cookie names no valid sign-in, or the
\* lookup fails, on a server with sign-in
NotAuthenticated(r) ==
    /\ server.username # <<>>
    /\ \/ r.fault = "guard"
       \/ r.signIn = <<>>
       \/ ~IsSignInValid(r.signIn[1])

\* the csrf-token cookie is missing or the form's token is not its value
TokenMismatch(r) == r.csrfCookie = <<>> \/ r.form["csrf-token"] # r.csrfCookie[1]

\* C1: on a server with sign-in, a request to a guarded route whose sign-in
\* cookie is missing or names no valid sign-in (or whose lookup fails) is
\* answered by the guard with 302 to /?return-url=<escaped path>; the handler
\* does not run: no row of lists, items or sign_ins changes
C1_GuardRedirects ==
    [][\A r \in Received :
          (r.route \in GuardedRoutes /\ NotAuthenticated(r)) =>
              /\ resp'.req = r
              /\ resp'.by = "signedIn"
              /\ resp'.status = 302
              /\ resp'.location = ReturnURLQuery \o QueryEscape(r.path)
              /\ resp'.signInCookie = NoCookie
              /\ UNCHANGED <<lists, items, sign_ins, inflight>>]_vars

\* a request to delete an existing list, bearing a sign-in cookie that is
\* not valid, was redirected by the guard
C1_Witness ==
    /\ server.username # <<>>
    /\ resp.by = "signedIn"
    /\ resp.req.route = "/delete-list"
    /\ resp.req.signIn # <<>>
    /\ resp.req.fault = "none"
    /\ \E i \in 1..Len(lists) :
          lists[i].id = resp.req.form["list-id"] /\ lists[i].time_deleted = NULL

\* C2: a POST to a route behind csrf that passes the sign-in guard, whose
\* csrf-token cookie is missing or whose form token differs from it, is
\* answered 400; the handler does not run: no row changes and no cookie is set
C2_CsrfRejects ==
    [][\A r \in Received :
          (/\ r.route \in CsrfRoutes
           /\ r.method = "POST"
           /\ r.route = "/sign-in" \/ ~NotAuthenticated(r)
           /\ TokenMismatch(r)) =>
              /\ resp'.req = r
              /\ resp'.by = "csrf"
              /\ resp'.status = 400
              /\ resp'.signInCookie = NoCookie
              /\ resp'.csrfSet = <<>>
              /\ UNCHANGED <<lists, items, sign_ins, inflight>>]_vars

\* a signed-in client's sign-out, its form token differing from the cookie,
\* was refused and the sign-in is still there
C2_Witness ==
    /\ resp.status = 400
    /\ resp.req.route = "/sign-out"
    /\ resp.req.csrfCookie # <<>>
    /\ resp.req.signIn # <<>>
    /\ IsSignInValid(resp.req.signIn[1])

\* what a step of /sign-in did: the row it added and the cookie it set
SignedInBy(r) ==
    \E row \in sign_ins' \ sign_ins :
        /\ sign_ins' = sign_ins \cup {row}
        /\ resp'.signInCookie # NoCookie
        /\ resp'.signInCookie[1].Value = row.id

NothingSignedIn == sign_ins' = sign_ins /\ resp'.signInCookie = NoCookie

\* C3 (as amended): a POST /sign-in that passes the CSRF check, and whose
\* CreateSignIn does not fail, creates a sign-in and sets the cookie to its
\* ID exactly when the submitted username, white space around it removed,
\* is the configured one and the password is the one of the hash; every
\* other POST /sign-in creates no row and sets no cookie
C3_SignInTrimmed ==
    [][\A r \in Received :
          (r.route = "/sign-in" /\ r.method = "POST") =>
              LET right == /\ TrimSpace(r.form["username"]) = server.username
                           /\ BcryptHash(r.form["password"]) = server.passwordHash
              IN  IF ~TokenMismatch(r) /\ resp'.status # 500 /\ right
                  THEN SignedInBy(r)
                  ELSE NothingSignedIn]_vars

\* a username with white space around it signed in
C3_Witness ==
    /\ resp.req.route = "/sign-in"
    /\ resp.signInCookie # NoCookie
    /\ resp.req.form["username"] # server.username
    /\ \E row \in sign_ins : row.id = resp.signInCookie[1].Value

\* C3 as stated: the sign-in is created and the cookie set exactly when the
\* submitted username equals the configured one and the password is right
\* (for a POST that passes the CSRF check and whose CreateSignIn does not fail)
C3_Original ==
    [][\A r \in Received :
          (r.route = "/sign-in" /\ r.method = "POST") =>
              LET right == /\ r.form["username"] = server.username
                           /\ BcryptHash(r.form["password"]) = server.passwordHash
              IN  IF ~TokenMismatch(r) /\ resp'.status # 500 /\ right
                  THEN SignedInBy(r)
                  ELSE NothingSignedIn]_vars

IssueSeconds ==
    {StartSec + (j * JumpSec) + k : j \in 0..MaxJumps, k \in 0..LongTicks}

\* the age of a sign-in in whole seconds, from the text of its time_created
AgeSeconds(row) ==
    now.sec - (CHOOSE sec \in IssueSeconds : SQLDateTime(sec) = row.time_created)

\* the values a sign-in cookie takes
CookieValues == Tokens(MaxDraws) \cup {Bogus, <<>>}

\* C5 (as amended): IsSignInValid(id) is true exactly when a row with that
\* ID exists whose age, in whole seconds of the clock, is less than 90 days:
\* a sign-in aged exactly 90 days is not valid any more though its row
\* remains, and an unknown ID is not valid
C5_ValidUnder90Days ==
    \A id \in CookieValues :
        IsSignInValid(id) <=>
            \E row \in sign_ins :
                row.id = id /\ AgeSeconds(row) < ValidDays * SecondsPerDay

\* the guard refused a cookie whose sign-in, still in the table, is exactly
\* 90 days old
C5_Witness ==
    /\ resp.by = "signedIn"
    /\ resp.req.fault = "none"
    /\ resp.req.signIn # <<>>
    /\ \E row \in sign_ins :
          /\ row.id = resp.req.signIn[1]
          /\ AgeSeconds(row) = ValidDays * SecondsPerDay
          /\ ~IsSignInValid(row.id)

\* C5 as stated: valid exactly when the row exists and its age is at most
\* 90 days
C5_Original ==
    \A id \in CookieValues :
        IsSignInValid(id) <=>
            \E row \in sign_ins :
                row.id = id /\ AgeSeconds(row) <= ValidDays * SecondsPerDay

\* the IDs GetLists returns
ListedIDs == LET all == GetLists IN {all[i].ID : i \in 1..Len(all)}

\* C6: a list once deleted is in no result of GetLists and GetList does not
\* find it, in every later state, whatever lists are created afterwards; its
\* row stays in the table (and stays deleted)
C6_DeletedListsStayHidden ==
    /\ [](\A i \in 1..Len(lists) :
            lists[i].time_deleted # NULL =>
                /\ lists[i].id \notin ListedIDs
                /\ ~GetList(lists[i].id).found)
    /\ [][\A i \in 1..Len(lists) :
            /\ i <= Len(lists')
            /\ lists'[i].id = lists[i].id
            /\ lists[i].time_deleted # NULL => lists'[i].time_deleted # NULL]_vars

\* a list was created after another was deleted, and only the new one shows
C6_Witness ==
    /\ resp.by = "createList"
    /\ Len(lists) = 2
    /\ lists[1].time_deleted # NULL
    /\ lists[2].time_deleted = NULL
    /\ ListedIDs = {lists[2].id}

\* the IDs of the items GetList(id) returns
ShownItemIDs(id) == LET shown == GetList(id).Items IN {shown[k].ID : k \in 1..Len(shown)}

\* the rows of items a request names by list-id and item-id
Named(r) ==
    {i \in 1..Len(items) :
        /\ items[i].list_id = r.form["list-id"]
        /\ IsNumeral(r.form["item-id"])
        /\ Itoa(items[i].id) = r.form["item-id"]}

\* C7: DeleteItem(listID, itemID) for an item of that list leaves the row in
\* the table, deleted, and every other row as it was; a deleted item is in
\* the Items of no GetList in any later state
C7_DeletedItemsStayHidden ==
    [][/\ \A r \in Received :
             (r.route = "/delete-item" /\ resp'.by = "deleteItem" /\ resp'.status = 302) =>
                 /\ Len(items') = Len(items)
                 /\ \A i \in 1..Len(items) :
                       IF i \in Named(r)
                       THEN /\ items'[i].time_deleted # NULL
                            /\ [items'[i] EXCEPT !.time_deleted = NULL]
                                   = [items[i] EXCEPT !.time_deleted = NULL]
                       ELSE items'[i] = items[i]
       /\ \A i \in 1..Len(items) :
             /\ i <= Len(items')
             /\ items'[i].id = items[i].id
             /\ items[i].time_deleted # NULL => items'[i].time_deleted # NULL
       /\ \A x \in 1..MaxItems, id \in ListIDs(MaxDraws) :
             (\E i \in 1..Len(items') : items'[i].id = x /\ items'[i].time_deleted # NULL) =>
                 Itoa(x) \notin ShownItemIDs(id)']_vars

\* the first of two items of a list was deleted: the list shows the second
C7_Witness ==
    /\ resp.by = "deleteItem"
    /\ Len(items) = 2
    /\ items[1].time_deleted # NULL
    /\ items[2].time_deleted = NULL
    /\ items[1].list_id = items[2].list_id
    /\ ShownItemIDs(items[2].list_id) = {Itoa(items[2].id)}

\* the place of list ID id in the result of GetLists
ListedAt(id) == CHOOSE i \in 1..Len(GetLists) : GetLists[i].ID = id

\* C8 as stated: GetLists returns exactly the lists not deleted, without
\* items, and of two of them the one created later comes first
C8_Original ==
    /\ Len(GetLists) = Cardinality({i \in 1..Len(lists) : lists[i].time_deleted = NULL})
    /\ ListedIDs = {lists[i].id : i \in {j \in 1..Len(lists) : lists[j].time_deleted = NULL}}
    /\ \A i \in 1..Len(GetLists) : DOMAIN GetLists[i] = {"ID", "Name", "TimeCreated"}
    /\ \A a, b \in 1..Len(lists) :
          (a < b /\ lists[a].time_deleted = NULL /\ lists[b].time_deleted = NULL) =>
              ListedAt(lists[b].id) < ListedAt(lists[a].id)

\* the parts of C8 other than the order
C8_ExactlyNotDeleted ==
    /\ Len(GetLists) = Cardinality({i \in 1..Len(lists) : lists[i].time_deleted = NULL})
    /\ ListedIDs = {lists[i].id : i \in {j \in 1..Len(lists) : lists[j].time_deleted = NULL}}
    /\ \A i \in 1..Len(GetLists) : DOMAIN GetLists[i] = {"ID", "Name", "TimeCreated"}

\* two lists, neither deleted, the one created first listed first
C8_Witness ==
    /\ Len(lists) = 2
    /\ Len(GetLists) = 2
    /\ GetLists[1].ID = lists[1].id
    /\ resp.by = "createList"

\* the rows of items of list id that are not deleted, in the order of
\* their insertion
LiveRows(id) ==
    LET Mine(row) == row.list_id = id /\ row.time_deleted = NULL
    IN  SelectSeq(items, Mine)

\* C9: the Items of GetList(id) are the items of the list not deleted, in
\* the order in which their AddItem completed, which is that of their IDs;
\* no step (that writes to items at all) changes the order of two items
\* that stay in the list
C9_ItemsInInsertionOrder ==
    /\ [](\A n \in 1..Len(lists) :
            lists[n].time_deleted = NULL =>
                LET shown == GetList(lists[n].id).Items
                    rows  == LiveRows(lists[n].id)
                IN  /\ Len(shown) = Len(rows)
                    /\ \A k \in 1..Len(rows) :
                          shown[k] = [ID |-> Itoa(rows[k].id),
                                      Description |-> rows[k].description,
                                      Done |-> rows[k].done]
                    /\ \A k, m \in 1..Len(rows) : k < m => rows[k].id < rows[m].id)
    /\ [][items' # items =>
            \A id \in ListIDs(MaxDraws) :
                LET before == GetList(id).Items
                    after  == GetList(id)'.Items
                IN  \A i, j \in 1..Len(before), k, m \in 1..Len(after) :
                        (i < j /\ after[k].ID = before[i].ID /\ after[m].ID = before[j].ID)
                            => k < m]_vars

\* a list shows two items, the first ticked off after the second was added
C9_Witness ==
    /\ resp.by = "updateDone"
    /\ Len(items) = 2
    /\ items[1].done
    /\ ~items[2].done
    /\ Len(GetList(items[1].list_id).Items) = 2
    /\ GetList(items[1].list_id).Items[1].ID = Itoa(items[1].id)

\* C10: a POST /create-list that gets to CreateList without an error adds
\* exactly one row to lists and redirects (302) to /lists/<ID>; GetList of
\* that ID then returns the ID, the name given to CreateList and no items
C10_CreateThenGet ==
    [][\A r \in Received :
          (/\ r.route = "/create-list"
           /\ resp'.by = "createList"
           /\ resp'.status # 500
           /\ TrimSpace(r.form["name"]) # <<>>) =>
              /\ resp'.status = 302
              /\ Len(lists') = Len(lists) + 1
              /\ SubSeq(lists', 1, Len(lists)) = lists
              /\ \E id \in ListIDs(MaxDraws) :
                    /\ lists'[Len(lists')].id = id
                    /\ \A i \in 1..Len(lists) : lists[i].id # id
                    /\ resp'.location = PathLists \o id
                    /\ GetList(id)' = [ID |-> id,
                                       Name |-> TrimSpace(r.form["name"]),
                                       Items |-> <<>>,
                                       found |-> TRUE]]_vars

\* a second list, its name submitted with white space around it, was
\* created while the first has an item
C10_Witness ==
    /\ resp.by = "createList"
    /\ resp.status = 302
    /\ resp.req.form["name"] = <<" ", "b", " ">>
    /\ Len(lists) = 2
    /\ lists[2].name = <<"b">>
    /\ items # <<>>

\* what C11 promises of a request: 405 with Allow: POST, and nothing changed
MethodNotAllowed(r) ==
    /\ resp'.req = r
    /\ resp'.status = 405
    /\ resp'.allow = "POST"
    /\ resp'.signInCookie = NoCookie
    /\ resp'.csrfSet = <<>>
    /\ UNCHANGED <<lists, items, sign_ins, inflight>>

\* C11 (as amended): a request with a method other than POST to a POST-only
\* route is answered 405 with Allow: POST and changes no state, provided it
\* reaches the method check: the route is /sign-in, or the request passes
\* the sign-in guard that runs first
C11_NonPostPastGuard ==
    [][\A r \in Received :
          (/\ r.route \in CsrfRoutes
           /\ r.method # "POST"
           /\ r.route = "/sign-in" \/ ~NotAuthenticated(r)) => MethodNotAllowed(r)]_vars

\* a signed-in GET of /delete-list, naming a list that exists with the token
\* of the cookie, was refused for its method and the list is still there
C11_Witness ==
    /\ resp.status = 405
    /\ resp.allow = "POST"
    /\ resp.req.route = "/delete-list"
    /\ resp.req.signIn # <<>>
    /\ ~TokenMismatch(resp.req)
    /\ \E i \in 1..Len(lists) :
          lists[i].id = resp.req.form["list-id"] /\ lists[i].time_deleted = NULL

\* C11 as stated: every request with a method other than POST to a POST-only
\* route is answered 405 with Allow: POST, signed in or not
C11_Original ==
    [][\A r \in Received :
          (r.route \in CsrfRoutes /\ r.method # "POST") => MethodNotAllowed(r)]_vars

\* C12: once the browser holds a csrf-token cookie with a value, every page
\* it is served (GET / and GET /lists/{id}) carries exactly that value as
\* the token of its forms and no response sets the cookie anew; so all the
\* forms it ever saw carry the cookie's value, and a form of any earlier
\* page that it posts is never refused by the CSRF check
C12_TokenStaysSame ==
    /\ [](/\ browser.csrf = <<>> => browser.forms = {}
          /\ browser.csrf # <<>> => browser.forms \subseteq {browser.csrf[1]})
    /\ [][(browser.csrf # <<>> /\ browser.csrf[1] # <<>>) =>
              /\ browser'.csrf = browser.csrf
              /\ resp'.csrfSet = <<>>
              /\ \A i \in 1..Len(resp'.page) : resp'.page[i].Token = browser.csrf[1]
              /\ resp'.req.method = "POST" =>
                    (resp'.req.form["csrf-token"] = browser.csrf[1] /\ resp'.by # "csrf")]_vars

\* the browser signed in with a form it holds, after an earlier session of
\* pages, a sign-in and a sign-out under the same token
C12_Witness ==
    /\ browser.did = "signIn"
    /\ resp.signInCookie # NoCookie
    /\ signedOut # {}
    /\ browser.csrf # <<>>
    /\ browser.forms = {browser.csrf[1]}

\* C13: a POST /sign-in that passes the CSRF check and fails redirects to /
\* with error=sign-in and, as return-url, the return-url it was submitted
\* with (/ for an empty one); one that succeeds redirects to that return-url
\* (/ for an empty one).  So after the guard redirected the browser's request
\* for a path, failed attempts and then a successful one send the browser to
\* that path, and the request it then makes is served there
C13_ReturnURLKept ==
    /\ [][\A r \in Received :
              (r.route = "/sign-in" /\ r.method = "POST" /\ ~TokenMismatch(r)
                  /\ resp'.status # 500) =>
                  LET target == IF r.form["return-url"] = <<>> THEN PathHome
                                ELSE r.form["return-url"]
                      url    == Cut(resp'.location, "?")
                  IN  /\ resp'.status = 302
                      /\ IF resp'.signInCookie = NoCookie
                         THEN /\ url[1] = PathHome
                              /\ QueryGet(url[2], KeyError) = ValueSignIn
                              /\ QueryGet(url[2], KeyReturnURL) = target
                         ELSE resp'.location = target]_vars
    /\ [][(browser.wanted # <<>> /\ browser'.did = "signIn"
              /\ resp'.signInCookie # NoCookie) =>
              resp'.location = browser.wanted]_vars
    /\ [][(browser.wanted # <<>> /\ resp.by = "signIn" /\ resp.signInCookie # NoCookie
              /\ browser'.did = "follow") =>
              (resp'.req.path = browser.wanted /\ resp'.by = "showList")]_vars

\* the browser asked for a list, was redirected by the guard, failed to sign
\* in twice, signed in, and was served the path it had asked for
C13_Witness ==
    /\ browser.wanted # <<>>
    /\ browser.failed = MaxFailed
    /\ browser.did = "follow"
    /\ resp.by = "showList"
    /\ resp.req.path = browser.wanted
    /\ resp.req.signIn # <<>>

\* C14: on a server without sign-in (empty username) the guard of every
\* guarded route lets every request through, whatever sign-in cookie it
\* carries, and does not look the cookie up: also a request whose lookup
\* would fail is passed on to what the guard wraps
C14_OpenWithoutSignIn ==
    [][\A r \in Received :
          (server.username = <<>> /\ r.route \in GuardedRoutes) =>
              \/ r \in {q.req : q \in inflight'}
              \/ (resp'.req = r /\ resp'.by # "signedIn")]_vars

\* a request to delete a list, with a sign-in cookie the server never issued
\* and the sign-in lookup failing, was served by the handler: the list is gone
C14_Witness ==
    /\ server.username = <<>>
    /\ resp.by = "deleteList"
    /\ resp.status = 302
    /\ resp.req.signIn = <<Bogus>>
    /\ resp.req.fault = "guard"
    /\ \E i \in 1..Len(lists) :
          lists[i].id = resp.req.form["list-id"] /\ lists[i].time_deleted # NULL

\* the list a request of /lists/ or /add-item names
ListNamed(r) ==
    IF r.route = "/lists/" THEN SubSeq(r.path, Len(PathLists) + 1, Len(r.path))
    ELSE r.form["list-id"]

\* no row of lists has this ID, or the row that has it is soft-deleted
NoLiveList(id) ==
    \A i \in 1..Len(lists) : lists[i].id = id => lists[i].time_deleted # NULL

\* C15: for an ID that was never created or whose list is soft-deleted,
\* GetList returns the not-found result (nil, no error), and GET /lists/{id}
\* and POST /add-item naming it, past the guards and with no storage call
\* failing, are answered 404 (not 500) and change nothing
C15_AbsentListNotFound ==
    /\ [](\A id \in ListIDs(MaxDraws) \cup {<<>>} : NoLiveList(id) => GetList(id) = Nil)
    /\ [][\A r \in Received :
              (/\ r.route \in {"/lists/", "/add-item"}
               /\ r.fault = "none"
               /\ ~NotAuthenticated(r)
               /\ r.route = "/add-item" => (r.method = "POST" /\ ~TokenMismatch(r))
               /\ NoLiveList(ListNamed(r))) =>
                  /\ resp'.req = r
                  /\ resp'.status = 404
                  /\ resp'.log = <<>>
                  /\ UNCHANGED <<lists, items, sign_ins, inflight>>]_vars

\* an item was to be added to a list that is soft-deleted: 404
C15_Witness ==
    /\ resp.status = 404
    /\ resp.req.route = "/add-item"
    /\ resp.req.form["description"] # <<>>
    /\ \E i \in 1..Len(lists) :
          lists[i].id = resp.req.form["list-id"] /\ lists[i].time_deleted # NULL

\* a POST to /update-done or /delete-item that reaches the handler, no
\* storage call failing
ItemMutation(r) ==
    /\ r.route \in {"/update-done", "/delete-item"}
    /\ r.method = "POST"
    /\ r.fault = "none"
    /\ ~NotAuthenticated(r)
    /\ ~TokenMismatch(r)

\* the list the request names is absent or soft-deleted, or the item is
NamesNothingLive(r) ==
    \/ NoLiveList(r.form["list-id"])
    \/ \A i \in Named(r) : items[i].time_deleted # NULL

\* C16 (as amended): a POST to /update-done or /delete-item that reaches the
\* handler is answered 302 to /lists/<list-id>, also when the list or the
\* item it names is absent or soft-deleted; table lists is left alone, only
\* rows of items with the named list and item ID change, and none when no
\* row has the pair
C16_MutationsRedirect ==
    [][\A r \in Received :
          ItemMutation(r) =>
              /\ resp'.req = r
              /\ resp'.status = 302
              /\ resp'.location = PathLists \o r.form["list-id"]
              /\ lists' = lists
              /\ Len(items') = Len(items)
              /\ \A i \in 1..Len(items) : i \notin Named(r) => items'[i] = items[i]]_vars

\* the done flag was set on an item of a soft-deleted list, and the request
\* was answered with a redirect to the list
C16_Witness ==
    /\ resp.req.route = "/update-done"
    /\ resp.status = 302
    /\ resp.req.form["done"] = On
    /\ NoLiveList(resp.req.form["list-id"])
    /\ \E i \in Named(resp.req) : items[i].done

\* C16 as stated: such a request that names an absent or soft-deleted list
\* or item is answered 404
C16_Original ==
    [][\A r \in Received :
          (ItemMutation(r) /\ NamesNothingLive(r)) => resp'.status = 404]_vars

\* the body of the 500 response of each operation a route calls
ErrorBodies(route) ==
    CASE route = "/"            -> {"error fetching lists"}
      [] route = "/sign-in"     -> {"error creating sign in"}
      [] route = "/sign-out"    -> {"error deleting sign in"}
      [] route = "/lists/"      -> {"error fetching list"}
      [] route = "/create-list" -> {"error creating list"}
      [] route = "/delete-list" -> {"error deleting list"}
      [] route = "/add-item"    -> {"error fetching list", "error adding item"}
      [] route = "/update-done" -> {"error updating done flag"}
      [] route = "/delete-item" -> {"error deleting item"}
      [] OTHER                  -> {}

\* the request gets as far as the handler's storage call: past the guards,
\* /sign-in with the right credentials, /create-list with a name
ReachesStatement(r) ==
    /\ r.route \in GuardedRoutes => ~NotAuthenticated(r)
    /\ r.route \in CsrfRoutes => (r.method = "POST" /\ ~TokenMismatch(r))
    /\ r.route = "/" => server.showLists
    /\ r.route = "/sign-in" =>
          /\ TrimSpace(r.form["username"]) = server.username
          /\ BcryptHash(r.form["password"]) = server.passwordHash
    /\ r.route = "/create-list" => TrimSpace(r.form["name"]) # <<>>

\* a 500 whose body names the operation, the error going to the log only
Logged500 ==
    /\ resp'.status = 500
    /\ resp'.body \in ErrorBodies(resp'.req.route)
    /\ Len(resp'.log) = 1
    /\ resp'.log[1].msg = resp'.body
    /\ resp'.log[1].err \in {ErrIO, ErrConstraint}

Completed == {q \in creating : \A p \in creating' : p.conn # q.conn}

\* C18 as stated: a /create-list request served while another one is being
\* served completes successfully, with a new row under an ID no other row
\* has
C18_Original ==
    [][\A q \in Completed :
          q.overlap =>
              /\ resp'.status = 302
              /\ Len(lists') = Len(lists) + 1
              /\ resp'.location = PathLists \o lists'[Len(lists')].id
              /\ \A i \in 1..Len(lists) : lists[i].id # lists'[Len(lists')].id]_vars

\* two requests were inside makeListID together and one of them panicked,
\* while the list of the other was created
C18_Witness ==
    /\ resp.by = "makeListID"
    /\ resp.status = 0
    /\ resp.log # <<>>
    /\ Len(lists) = 1

C20_DeleteListIdempotent ==
    [][\A r \in Received :
          (/\ r.route = "/delete-list"
           /\ r.method = "POST"
           /\ r.fault = "none"
           /\ ~NotAuthenticated(r)
           /\ ~TokenMismatch(r)) =>
              LET id == r.form["list-id"]
              IN  /\ resp'.status = 302
                  /\ resp'.log = <<>>
                  /\ items' = items
                  /\ Len(lists') = Len(lists)
                  /\ \A i \in 1..Len(lists) : lists[i].id # id => lists'[i] = lists[i]
                  /\ NoLiveList(id) =>
                        /\ GetLists' = GetLists
                        /\ \A x \in ListIDs(MaxDraws) \cup {<<>>} : GetList(x)' = GetList(x)]_vars

\* a list that does not exist was deleted while another one exists: the
\* request was answered with the redirect and that list is still shown
C20_Witness ==
    /\ resp.by = "deleteList"
    /\ resp.status = 302
    /\ \A i \in 1..Len(lists) : lists[i].id # resp.req.form["list-id"]
    /\ Len(GetLists) = 1

\* the rows of items whose list is the request's list-id and whose ID is
\* the number its item-id reads as
NamedByNumber(r) ==
    {i \in 1..Len(items) :
        /\ items[i].list_id = r.form["list-id"]
        /\ IsNumeral(r.form["item-id"])
        /\ Atoi(r.form["item-id"]) = items[i].id}

Blank(s) == \A i \in 1..Len(s) : s[i] \in {" ", "\t", "\n", "\r"}

\* t is s without the white space around it
IsTrimOf(t, s) ==
    /\ t # <<>>
    /\ ~Blank(<<t[1]>>)
    /\ ~Blank(<<t[Len(t)]>>)
    /\ \E a \in 0..Len(s) :
          /\ a + Len(t) <= Len(s)
          /\ SubSeq(s, a + 1, a + Len(t)) = t
          /\ Blank(SubSeq(s, 1, a))
          /\ Blank(SubSeq(s, a + Len(t) + 1, Len(s)))

\* C22: a POST /create-list with a name that is empty after trimming
\* creates no row and is answered 302 to /; a POST /add-item on an existing
\* list with a description that is empty after trimming creates no row and
\* is answered 302 to the list's page; an item that is added carries the
\* description without the white space around it
C22_BlankInputsRedirect ==
    /\ [][\A r \in Received :
              (r.method = "POST" /\ r.fault = "none" /\ ~NotAuthenticated(r)
                  /\ ~TokenMismatch(r)) =>
                  /\ (r.route = "/create-list" /\ Blank(r.form["name"])) =>
                        /\ resp'.req = r
                        /\ resp'.status = 302
                        /\ resp'.location = PathHome
                        /\ resp'.log = <<>>
                        /\ UNCHANGED <<lists, items, inflight>>
                  /\ (r.route = "/add-item" /\ ~NoLiveList(r.form["list-id"])
                          /\ Blank(r.form["description"])) =>
                        /\ resp'.req = r
                        /\ resp'.status = 302
                        /\ resp'.location = PathLists \o r.form["list-id"]
                        /\ resp'.log = <<>>
                        /\ UNCHANGED <<lists, items, inflight>>]_vars
    /\ [][items' # items =>
              /\ Len(items') = Len(items) + 1
              /\ SubSeq(items', 1, Len(items)) = items
              /\ resp'.req.route = "/add-item"
              /\ IsTrimOf(items'[Len(items')].description, resp'.req.form["description"])]_vars

\* an item submitted with white space around its description is stored
\* without it
C22_Witness ==
    /\ resp.req.route = "/add-item"
    /\ resp.status = 302
    /\ resp.req.form["description"] = <<" ", "e", " ">>
    /\ items # <<>>
    /\ items[Len(items)].description = <<"e">>

\* C23: no two rows of lists ever have the same ID, soft-deleted rows
\* included; a CreateList whose makeListID returned the ID of a row that
\* exists fails with the constraint error and leaves table lists as it was,
\* and one whose ID is new appends one row under that ID
C23_ListIDsUnique ==
    /\ [](\A i, j \in 1..Len(lists) : i # j => lists[i].id # lists[j].id)
    /\ [][\A q \in Completed :
              q.phase = "drawn" =>
                  IF \E i \in 1..Len(lists) : lists[i].id = q.id
                  THEN /\ resp'.status = 500
                       /\ resp'.log # <<>>
                       /\ resp'.log[1].err = ErrConstraint
                       /\ lists' = lists
                  ELSE /\ Len(lists') = Len(lists) + 1
                       /\ SubSeq(lists', 1, Len(lists)) = lists
                       /\ lists'[Len(lists')].id = q.id]_vars

\* a CreateList failed on the key of the only row there is, a list that is
\* soft-deleted
C23_Witness ==
    /\ resp.by = "createList"
    /\ resp.status = 500
    /\ Len(lists) = 1
    /\ lists[1].time_deleted # NULL
    /\ creating = {}

\* the environment's hash is one bcrypt can read
WellFormed(h) == \E p \in {Pw, <<"x">>} : h = BcryptHash(p)

\* the process has opened the database, built the server, started to
\* listen or answered a request
HasStarted == main.dbOpen \/ main.pc \in {"built", "serving"} \/ resp # NoResponse

\* C24: CheckPasswordHash returns nil for each bcrypt hash, whatever the
\* password in it, and an error for every other value; and a process
\* started with a username and with an empty or unreadable hash never opens
\* the database, never listens and never answers a request: main leaves
\* "start" only by exiting.
C24_BadHashNeverServes ==
    /\ [](\A h \in PassHashes : CheckPasswordHash(h) = "" <=> WellFormed(h))
    /\ [](main.username # <<>> /\ ~WellFormed(main.passhash)
             => ~HasStarted /\ main.pc \in {"start", "exited"})
    /\ [][main.pc = "start" /\ main.username # <<>> /\ ~WellFormed(main.passhash)
             => main'.pc = "exited" /\ ~main'.dbOpen]_vars

\* a process started with a username and an unreadable hash has exited
\* with the database unopened
C24_Witness ==
    /\ main.pc = "exited"
    /\ main.username # <<>>
    /\ main.passhash = Pw
    /\ ~main.dbOpen
    /\ resp = NoResponse

\* the response q answers a sign-in that the handler turned down
FailedSignIn(q) ==
    /\ q.by = "signIn"
    /\ \/ TrimSpace(q.req.form["username"]) # Admin
       \/ q.req.form["password"] # Pw

\* what the client sees of a response: all of it but the request
Seen(q) == [q EXCEPT !.req = NoRequest]

\* C25: a failed sign-in is answered by a redirect without cookie, body or
\* log entry, and two failed sign-ins that submit the same return-url, one
\* after the other, get the same response whatever usernames and passwords
\* they submit.
C25_FailuresAlike ==
    /\ [](FailedSignIn(resp) => /\ resp.status = 302
                                /\ resp.signInCookie = <<>>
                                /\ resp.body = ""
                                /\ resp.log = <<>>)
    /\ [][/\ FailedSignIn(resp)
          /\ FailedSignIn(resp')
          /\ resp'.req.form["return-url"] = resp.req.form["return-url"]
          => Seen(resp') = Seen(resp)]_vars

\* an unknown user without password is turned down on the way to a list
\* page, by a server that has signed someone in
C25_Witness ==
    /\ FailedSignIn(resp)
    /\ resp.req.form["username"] = Eve
    /\ resp.req.form["password"] = <<>>
    /\ resp.req.form["return-url"] = PathLists \o <<"b">>
    /\ sign_ins # {}

\* the rows of items that belong to list id, deleted or not
RowsOf(id) == {i \in 1..Len(items) : items[i].list_id = id}

\* C26: a POST /delete-list that reaches the handler, no statement failing,
\* is answered 302 to "/"; it marks the row of that list deleted and leaves
\* every other row of lists and every row of items (those of the deleted
\* list too, with their done flags) as they were; afterwards GetLists, which
\* the home page shows, has no list of that ID and GetList, which
\* GET /lists/{id} shows, does not find it.
C26_DeleteListHidesOneList ==
    /\ [][\A r \in Received :
            (/\ r.route = "/delete-list"
             /\ r.method = "POST"
             /\ r.fault = "none"
             /\ ~NotAuthenticated(r)
             /\ ~TokenMismatch(r)) =>
                LET id == r.form["list-id"]
                IN  /\ resp'.status = 302
                    /\ resp'.location = PathHome
                    /\ items' = items
                    /\ Len(lists') = Len(lists)
                    /\ \A i \in 1..Len(lists) :
                          IF lists[i].id = id
                          THEN /\ lists'[i].time_deleted # NULL
                               /\ [lists'[i] EXCEPT !.time_deleted = NULL]
                                      = [lists[i] EXCEPT !.time_deleted = NULL]
                          ELSE lists'[i] = lists[i]]_vars
    /\ [](resp.by = "deleteList" /\ resp.status = 302 =>
             /\ resp.req.form["list-id"] \notin ListedIDs
             /\ GetList(resp.req.form["list-id"]) = Nil)

\* a list with an item marked done was deleted while another list is
\* still shown
C26_Witness ==
    /\ resp.by = "deleteList"
    /\ resp.status = 302
    /\ \E i \in RowsOf(resp.req.form["list-id"]) : items[i].done /\ items[i].time_deleted = NULL
    /\ \E i \in 1..Len(lists) : lists[i].id = resp.req.form["list-id"]
    /\ Len(GetLists) = 1

\* the 21 consonants
Consonants == {"b", "c", "d", "f", "g", "h", "j", "k", "l", "m", "n",
               "p", "q", "r", "s", "t", "v", "w", "x", "y", "z"}

\* ten characters, each a consonant
TenConsonants(id) == Len(id) = 10 /\ \A i \in 1..Len(id) : id[i] \in Consonants

\* C27: the ID of every list row, and the ID in the redirect that answers
\* the /create-list that made it, is ten characters long, each of them one
\* of the 21 consonants of listIDChars.
C27_ListIDShape ==
    /\ Cardinality(Consonants) = 21
    /\ \A i \in 1..Len(lists) : TenConsonants(lists[i].id)
    /\ (resp.by = "createList" /\ resp.status = 302 /\ resp.location # PathHome) =>
          /\ Len(resp.location) = Len(PathLists) + 10
          /\ SubSeq(resp.location, 1, Len(PathLists)) = PathLists
          /\ TenConsonants(SubSeq(resp.location, Len(PathLists) + 1, Len(resp.location)))
          /\ \E i \in 1..Len(lists) : resp.location = PathLists \o lists[i].id

\* a list was created whose ID has the last consonant and another one
C27_Witness ==
    /\ resp.by = "createList"
    /\ resp.status = 302
    /\ Len(lists) = 1
    /\ lists[1].id[1] = "z"
    /\ lists[1].id[2] # "z"

\* the cookie a sign-in sets
Issued == resp.by = "signIn" /\ resp.signInCookie # <<>>

\* C28 as stated: the cookie of a sign-in is HttpOnly, SameSite=Strict, has
\* Path "/" and a Max-Age of the 90 days for which IsSignInValid accepts
\* the sign-in, and is Secure exactly when the request came over https.
C28_Original ==
    Issued =>
        LET cookie == resp.signInCookie[1]
        IN  /\ cookie.HttpOnly
            /\ cookie.SameSite = "Strict"
            /\ cookie.Path = PathHome
            /\ cookie.MaxAge = ValidDays * 24 * 60 * 60
            /\ cookie.Secure <=> resp.req.scheme = "https"

\* a browser signed in over https and was given a cookie without Secure
C28_Witness ==
    /\ Issued
    /\ resp.req.scheme = "https"
    /\ ~resp.req.absolute
    /\ ~resp.signInCookie[1].Secure

\* C28, what holds: the attributes other than Secure are as stated, and
\* Secure is set exactly when the request line carries an absolute URL
\* whose scheme is https.
C28_SecureFollowsRequestLine ==
    Issued =>
        LET cookie == resp.signInCookie[1]
        IN  /\ cookie.HttpOnly
            /\ cookie.SameSite = "Strict"
            /\ cookie.Path = PathHome
            /\ cookie.MaxAge = ValidDays * 24 * 60 * 60
            /\ cookie.Secure <=> (resp.req.absolute /\ resp.req.scheme = "https")

\* the request has no csrf-token cookie or an empty one, or no form token
\* or an empty one, or the two differ
TokenMissing(r) ==
    \/ TokenMismatch(r)
    \/ r.csrfCookie[1] = <<>>
    \/ r.form["csrf-token"] = <<>>

\* C29 as stated: the handler behind csrf runs only when the csrf-token
\* cookie is there and not empty and the form's token is equal to it (and so
\* not empty): every other POST is answered 400 by csrf and changes nothing.
C29_Original ==
    [][\A r \in Received :
          (/\ r.route \in CsrfRoutes
           /\ r.method = "POST"
           /\ ~NotAuthenticated(r)
           /\ TokenMissing(r)) =>
              /\ resp'.by = "csrf"
              /\ resp'.status = 400
              /\ UNCHANGED <<lists, items, sign_ins, inflight>>]_vars

\* a list was created by a request whose cookie and form token are both
\* empty
C29_Witness ==
    /\ resp.by = "createList"
    /\ resp.status = 302
    /\ resp.req.csrfCookie = <<EmptyToken>>
    /\ resp.req.form["csrf-token"] = EmptyToken
    /\ Len(lists) = 1

\* C29, what holds: a POST without the cookie, or whose form token is not
\* the cookie's value, is answered 400 and changes nothing; an empty cookie
\* value with an empty form token is let through.
C29_EqualTokensPass ==
    [][\A r \in Received :
          (r.route \in CsrfRoutes /\ r.method = "POST" /\ ~NotAuthenticated(r)) =>
              IF TokenMismatch(r)
              THEN /\ resp'.by = "csrf"
                   /\ resp'.status = 400
                   /\ UNCHANGED <<lists, items, sign_ins, inflight>>
              ELSE resp'.by # "csrf"]_vars

\* the rows a step inserts into items
Inserted == {i \in 1..Len(items') : i > Len(items)}

\* C30 as stated: when a row is inserted into items, the list it belongs
\* to is not deleted, also when a /delete-list is served between the GetList
\* and the AddItem of the /add-item.
C30_Original ==
    [][\A i \in Inserted : ~NoLiveList(items'[i].list_id)]_vars

\* an /add-item was answered with its redirect after inserting into a list
\* that a /delete-list had deleted in between
C30_Witness ==
    /\ resp.by = "addItem"
    /\ resp.status = 302
    /\ Len(items) > 0
    /\ items[Len(items)].list_id = resp.req.form["list-id"]
    /\ \E i \in 1..Len(lists) :
          lists[i].id = resp.req.form["list-id"] /\ lists[i].time_deleted # NULL

\* C30, what holds: the list of an /add-item is live when the handler
\* fetches it; an /add-item that finds no live list inserts nothing.
C30_LiveWhenFetched ==
    [][\A q \in inflight' \ inflight : ~NoLiveList(q.listID)]_vars

\* the response answers a sign-in that succeeded
SignedIn == resp.by = "signIn" /\ resp.status = 302 /\ resp.signInCookie # <<>>

\* a path of this site: it begins with one slash, not with two
OnSite(url) == url # <<>> /\ url[1] = "/" /\ (Len(url) > 1 => url[2] # "/")

\* C31 as stated: the Location of the redirect after a successful sign-in
\* is a path of this site, whatever the return-url of the form is.
C31_Original == SignedIn => OnSite(resp.location)

\* a sign-in with the right password, its return-url the URL of another
\* site, was answered with a redirect to that site
C31_Witness ==
    /\ SignedIn
    /\ resp.req.form["return-url"] = Elsewhere
    /\ resp.location = Elsewhere
    /\ sign_ins # {}

\* C31, what holds: the Location is a path of this site unless the
\* return-url has a scheme, and then it is the return-url as submitted; a
\* scheme-relative return-url is cleaned to a path of this site.
C31_SchemeLeavesSite ==
    SignedIn =>
        LET url == resp.req.form["return-url"]
        IN  IF Parse(url).scheme # <<>> THEN resp.location = url
            ELSE OnSite(resp.location)

\* the home page answered to a request that is not signed in
SignedOutHome == resp.by = "home" /\ NotAuthenticated(resp.req)

\* C32: on a server with sign-in that shows lists, GET / without a valid
\* sign-in is answered 200 with a page that has the sign-in form, no
\* create-list form and no entry of any list, and that is the page the same
\* request would get with no list stored; nothing else of the response (no
\* header, no cookie) comes from the lists either.
C32_SignedOutHomeHidesLists ==
    (SignedOutHome /\ resp.req.fault = "none") =>
        LET data  == resp.page[1]
            shown == homeTmpl(data)
        IN  /\ server.showLists
            /\ resp.status = 200
            /\ resp.location = <<>>
            /\ resp.signInCookie = NoCookie
            /\ Len(shown.SignInForm) = 1
            /\ shown.CreateListForm = <<>>
            /\ shown.SignOutForm = <<>>
            /\ shown.Entries = <<>>
            /\ shown = homeTmpl([data EXCEPT !.Lists = <<>>])
            /\ data.Token = getCSRFToken(resp.req, 1)[1]

\* the home page was opened without sign-in while two lists are stored
C32_Witness ==
    /\ SignedOutHome
    /\ resp.req.signIn = <<>>
    /\ Len(GetLists) = 2
    /\ Len(resp.page[1].Lists) = 2

\* the validity of every token other than id is what it was
OthersKeepValidity(id) ==
    \A t \in Tokens(MaxDraws) \cup {Bogus} : t # id => (IsSignInValid(t)' <=> IsSignInValid(t))

\* C33: a sign-in that succeeds adds one row to sign_ins, under a token no
\* row had, and a sign-out that reaches DeleteSignIn removes the rows of the
\* token in the request's cookie and no other; either way every other token
\* is valid afterwards exactly if it was before.
C33_SessionsIndependent ==
    [][/\ (resp'.by = "signIn" /\ resp'.signInCookie # NoCookie) =>
             LET issued == resp'.signInCookie[1].Value
             IN  /\ \A row \in sign_ins : row.id # issued
                 /\ \E row \in sign_ins' : row.id = issued /\ sign_ins' = sign_ins \cup {row}
                 /\ OthersKeepValidity(issued)
       /\ (resp'.by = "signOut" /\ resp'.status = 302) =>
             LET gone == resp'.req.signIn[1]
             IN  /\ sign_ins' = {row \in sign_ins : row.id # gone}
                 /\ OthersKeepValidity(gone)]_vars

\* a client signed out while the sign-in of another one is still valid
C33_Witness ==
    /\ resp.by = "signOut"
    /\ resp.status = 302
    /\ ~IsSignInValid(resp.req.signIn[1])
    /\ \E row \in sign_ins : row.id # resp.req.signIn[1] /\ IsSignInValid(row.id)

\* C34: the rows of items, in the order of their AddItem calls, have
\* strictly increasing IDs, whatever lists they belong to and whether or not
\* they are deleted; no step removes a row or changes its ID, and the ID an
\* AddItem returns is larger than that of every row there is, deleted ones
\* included, so no ID is given twice.
C34_ItemIDsIncrease ==
    /\ [](\A i, j \in 1..Len(items) : i < j => items[i].id < items[j].id)
    /\ [][/\ Len(items') >= Len(items)
          /\ \A i \in 1..Len(items) : items'[i].id = items[i].id
          /\ \A i \in Inserted : \A j \in 1..Len(items) : items'[i].id > items[j].id]_vars

\* an item was added to a list after the only item so far, which is in
\* another list, was deleted
C34_Witness ==
    /\ resp.by = "addItem"
    /\ resp.status = 302
    /\ Len(items) = 2
    /\ items[1].time_deleted # NULL
    /\ items[1].list_id # items[2].list_id
    /\ items[2].id = 2

\* the row of items is deleted, or the list it belongs to is
SoftDeleted(row) == row.time_deleted # NULL \/ NoLiveList(row.list_id)

\* C35 as stated: no step changes the done flag or the deletion time of an
\* item that is deleted or whose list is deleted; an /update-done or a
\* /delete-item that names such an item leaves both as they were.
C35_Original ==
    [][\A i \in 1..Len(items) :
          SoftDeleted(items[i]) =>
              /\ items'[i].done = items[i].done
              /\ items'[i].time_deleted = items[i].time_deleted]_vars

\* a /delete-item was answered with its redirect, and the item it names
\* has a deletion time later than that of its list
C35_Witness ==
    /\ resp.by = "deleteItem"
    /\ resp.status = 302
    /\ \E i \in NamedByNumber(resp.req), j \in 1..Len(lists) :
          /\ lists[j].id = items[i].list_id
          /\ lists[j].time_deleted # NULL
          /\ items[i].time_deleted # NULL
          /\ StrLess(lists[j].time_deleted, items[i].time_deleted)

\* the response answers a sign-out whose DeleteSignIn failed
SignOutFailed == resp.by = "signOut" /\ resp.req.fault = "stmt"

\* C36 as stated: a sign-out whose DeleteSignIn fails is answered 500
\* without a Set-Cookie for the sign-in cookie, so that no response makes
\* the client drop the cookie of a sign-in that is still valid.
C36_Original ==
    /\ SignOutFailed => resp.status = 500 /\ resp.signInCookie = NoCookie
    /\ (resp.signInCookie # NoCookie /\ resp.signInCookie[1].MaxAge < 0) =>
           ~IsSignInValid(resp.req.signIn[1])

\* a sign-out was answered 500 with the cookie cleared, and the sign-in it
\* named is still valid
C36_Witness ==
    /\ SignOutFailed
    /\ resp.status = 500
    /\ resp.signInCookie # NoCookie
    /\ resp.signInCookie[1].MaxAge < 0
    /\ IsSignInValid(resp.req.signIn[1])

\* C36, what holds: a sign-out whose DeleteSignIn fails is answered 500,
\* logs the error and leaves sign_ins as it was; every sign-out that
\* reaches the handler clears the cookie, failed or not.
C36_FailedSignOutKeepsRow ==
    /\ [](SignOutFailed => resp.status = 500 /\ resp.log # <<>>)
    /\ [](resp.by = "signOut" =>
             resp.signInCookie # NoCookie /\ resp.signInCookie[1].MaxAge < 0)
    /\ [][(resp'.by = "signOut" /\ resp'.req.fault = "stmt") => sign_ins' = sign_ins]_vars
====
